---- MODULE Spec2Model ----
(***************************************************************************)
(* Model of the article collector in src/backend/testCollector.py:         *)
(* CustomArticleCollector.collect_top_3_per_publication and the methods it *)
(* calls (collect_from_source, fetch_sitemap_articles, try_rss_feed,       *)
(* extract_full_content, make_request, the two scorers).                   *)
(*                                                                         *)
(* Strings are sequences of one-character strings, so that lower(),        *)
(* substring tests, strip() and rstrip('/') are computed as Python does.   *)
(* Scores are exact rationals in units of 1/Scale (0.02): every weight of  *)
(* the scorer is a multiple of 0.5 and the bonuses are 6/5 and 7/5, so     *)
(* all scores are integers in this unit and compare as the floats do.      *)
(***************************************************************************)
EXTENDS Integers, Sequences, FiniteSets, TLC

(***************************************************************************)
(* Strings                                                                 *)
(***************************************************************************)
UpperToLower ==
  ("A" :> "a") @@ ("B" :> "b") @@ ("C" :> "c") @@ ("D" :> "d") @@ ("E" :> "e") @@ ("F" :> "f") @@
  ("G" :> "g") @@ ("H" :> "h") @@ ("I" :> "i") @@ ("J" :> "j") @@ ("K" :> "k") @@ ("L" :> "l") @@
  ("M" :> "m") @@ ("N" :> "n") @@ ("O" :> "o") @@ ("P" :> "p") @@ ("Q" :> "q") @@ ("R" :> "r") @@
  ("S" :> "s") @@ ("T" :> "t") @@ ("U" :> "u") @@ ("V" :> "v") @@ ("W" :> "w") @@ ("X" :> "x") @@
  ("Y" :> "y") @@ ("Z" :> "z")

LowerChar(c) == IF c \in DOMAIN UpperToLower THEN UpperToLower[c] ELSE c

\* str.lower()
lower(s) == [i \in 1..Len(s) |-> LowerChar(s[i])]

\* needle in hay (Python substring test)
Contains(hay, needle) ==
  \E i \in 0..(Len(hay) - Len(needle)) :
    \A j \in 1..Len(needle) : hay[i + j] = needle[j]

\* x in list
In(x, list) == \E i \in 1..Len(list) : list[i] = x

\* f"{a} {b}"
Joined(a, b) == a \o <<" ">> \o b

RECURSIVE rstrip(_, _)
\* str.rstrip(c)
rstrip(s, c) ==
  IF s # <<>> /\ s[Len(s)] = c THEN rstrip(SubSeq(s, 1, Len(s) - 1), c) ELSE s

RECURSIVE lstrip(_, _)
lstrip(s, c) ==
  IF s # <<>> /\ s[1] = c THEN lstrip(Tail(s), c) ELSE s

\* str.strip() for the blank character
strip(s) == rstrip(lstrip(s, " "), " ")

(***************************************************************************)
(* Keyword tables (CustomArticleCollector.__init__ and the scorers)        *)
(***************************************************************************)
luxury_keywords ==
  <<
    <<"l","u","x","u","r","y">>,  \* luxury
    <<"j","e","w","e","l","l","e","r","y">>,  \* jewellery
    <<"f","i","n","e"," ","j","e","w","e","l","l","e","r","y">>,  \* fine jewellery
    <<"c","r","a","f","t","s","m","a","n","s","h","i","p">>,  \* craftsmanship
    <<"j","e","w","e","l","r","y">>,  \* jewelry
    <<"d","i","a","m","o","n","d">>,  \* diamond
    <<"e","n","g","a","g","e","m","e","n","t"," ","r","i","n","g">>,  \* engagement ring
    <<"w","e","d","d","i","n","g"," ","r","i","n","g">>,  \* wedding ring
    <<"f","a","s","h","i","o","n">>,  \* fashion
    <<"a","c","c","e","s","s","o","r","i","e","s">>,  \* accessories
    <<"w","a","t","c","h","e","s">>,  \* watches
    <<"t","i","m","e","p","i","e","c","e">>,  \* timepiece
    <<"n","e","c","k","l","a","c","e">>,  \* necklace
    <<"b","r","a","c","e","l","e","t">>,  \* bracelet
    <<"e","a","r","r","i","n","g","s">>,  \* earrings
    <<"p","e","n","d","a","n","t">>,  \* pendant
    <<"b","r","o","o","c","h">>,  \* brooch
    <<"g","o","l","d">>,  \* gold
    <<"p","l","a","t","i","n","u","m">>,  \* platinum
    <<"s","i","l","v","e","r">>,  \* silver
    <<"e","m","e","r","a","l","d">>,  \* emerald
    <<"s","a","p","p","h","i","r","e">>,  \* sapphire
    <<"r","u","b","y">>,  \* ruby
    <<"c","a","r","t","i","e","r">>,  \* cartier
    <<"t","i","f","f","a","n","y">>,  \* tiffany
    <<"b","u","l","g","a","r","i">>,  \* bulgari
    <<"c","h","a","n","e","l">>,  \* chanel
    <<"d","i","o","r">>,  \* dior
    <<"v","a","n"," ","c","l","e","e","f">>,  \* van cleef
    <<"g","r","a","f","f">>,  \* graff
    <<"h","a","r","r","y"," ","w","i","n","s","t","o","n">>,  \* harry winston
    <<"c","h","o","p","a","r","d">>,  \* chopard
    <<"p","i","a","g","e","t">>,  \* piaget
    <<"b","o","u","c","h","e","r","o","n">>,  \* boucheron
    <<"r","e","d"," ","c","a","r","p","e","t">>,  \* red carpet
    <<"c","e","l","e","b","r","i","t","y">>,  \* celebrity
    <<"h","a","u","t","e"," ","c","o","u","t","u","r","e">>,  \* haute couture
    <<"c","o","l","l","e","c","t","i","o","n">>,  \* collection
    <<"l","a","u","n","c","h">>,  \* launch
    <<"c","o","l","l","a","b","o","r","a","t","i","o","n">>,  \* collaboration
    <<"l","i","m","i","t","e","d"," ","e","d","i","t","i","o","n">>,  \* limited edition
    <<"a","u","c","t","i","o","n">>,  \* auction
    <<"i","n","v","e","s","t","m","e","n","t">>,  \* investment
    <<"t","r","e","n","d","s">>,  \* trends
    <<"s","t","y","l","e">>,  \* style
    <<"f","a","s","h","i","o","n"," ","w","e","e","k">>,  \* fashion week
    <<"r","o","y","a","l">>,  \* royal
    <<"r","o","y","a","l","s">>,  \* royals
    <<"L","u","x","u","r","y"," ","s","e","c","t","o","r">>,  \* Luxury sector
    <<"L","u","x","u","r","y"," ","m","a","r","k","e","t","i","n","g"," ","t","r","e","n","d","s">>,  \* Luxury marketing trends
    <<"L","a","b"," ","g","r","o","w","n"," ","d","i","a","m","o","n","d","s">>,  \* Lab grown diamonds
    <<"D","i","a","m","o","n","d"," ","p","r","i","c","e">>,  \* Diamond price
    <<"G","o","l","d"," ","p","r","i","c","e">>,  \* Gold price
    <<"j","e","w","e","l","s">>  \* jewels
  >>

core_priority_keywords ==
  <<
    <<"j","e","w","e","l","l","e","r","y">>,  \* jewellery
    <<"f","i","n","e"," ","j","e","w","e","l","l","e","r","y">>,  \* fine jewellery
    <<"c","r","a","f","t","s","m","a","n","s","h","i","p">>,  \* craftsmanship
    <<"r","o","y","a","l">>,  \* royal
    <<"r","o","y","a","l","s">>,  \* royals
    <<"f","a","s","h","i","o","n"," ","w","e","e","k">>,  \* fashion week
    <<"j","e","w","e","l","s">>  \* jewels
  >>

primary_jewelry_terms ==
  <<
    <<"j","e","w","e","l","r","y">>,  \* jewelry
    <<"d","i","a","m","o","n","d">>,  \* diamond
    <<"e","n","g","a","g","e","m","e","n","t"," ","r","i","n","g">>,  \* engagement ring
    <<"w","e","d","d","i","n","g"," ","r","i","n","g">>,  \* wedding ring
    <<"L","a","b"," ","g","r","o","w","n"," ","d","i","a","m","o","n","d","s">>,  \* Lab grown diamonds
    <<"D","i","a","m","o","n","d"," ","p","r","i","c","e">>,  \* Diamond price
    <<"G","o","l","d"," ","p","r","i","c","e">>,  \* Gold price
    <<"L","u","x","u","r","y"," ","s","e","c","t","o","r">>,  \* Luxury sector
    <<"L","u","x","u","r","y"," ","m","a","r","k","e","t","i","n","g"," ","t","r","e","n","d","s">>  \* Luxury marketing trends
  >>

jewelry_pieces_and_materials ==
  <<
    <<"n","e","c","k","l","a","c","e">>,  \* necklace
    <<"b","r","a","c","e","l","e","t">>,  \* bracelet
    <<"e","a","r","r","i","n","g","s">>,  \* earrings
    <<"p","e","n","d","a","n","t">>,  \* pendant
    <<"b","r","o","o","c","h">>,  \* brooch
    <<"g","o","l","d">>,  \* gold
    <<"p","l","a","t","i","n","u","m">>,  \* platinum
    <<"s","i","l","v","e","r">>,  \* silver
    <<"e","m","e","r","a","l","d">>,  \* emerald
    <<"s","a","p","p","h","i","r","e">>,  \* sapphire
    <<"r","u","b","y">>  \* ruby
  >>

premium_luxury_brands ==
  <<
    <<"c","a","r","t","i","e","r">>,  \* cartier
    <<"t","i","f","f","a","n","y">>,  \* tiffany
    <<"b","u","l","g","a","r","i">>,  \* bulgari
    <<"c","h","a","n","e","l">>,  \* chanel
    <<"d","i","o","r">>,  \* dior
    <<"v","a","n"," ","c","l","e","e","f">>,  \* van cleef
    <<"g","r","a","f","f">>,  \* graff
    <<"h","a","r","r","y"," ","w","i","n","s","t","o","n">>,  \* harry winston
    <<"c","h","o","p","a","r","d">>,  \* chopard
    <<"p","i","a","g","e","t">>,  \* piaget
    <<"b","o","u","c","h","e","r","o","n">>  \* boucheron
  >>

fashion_and_luxury_terms ==
  <<
    <<"f","a","s","h","i","o","n">>,  \* fashion
    <<"a","c","c","e","s","s","o","r","i","e","s">>,  \* accessories
    <<"w","a","t","c","h","e","s">>,  \* watches
    <<"t","i","m","e","p","i","e","c","e">>,  \* timepiece
    <<"c","o","l","l","e","c","t","i","o","n">>,  \* collection
    <<"l","a","u","n","c","h">>,  \* launch
    <<"h","a","u","t","e"," ","c","o","u","t","u","r","e">>,  \* haute couture
    <<"l","i","m","i","t","e","d"," ","e","d","i","t","i","o","n">>  \* limited edition
  >>

events_and_celebrity ==
  <<
    <<"r","e","d"," ","c","a","r","p","e","t">>,  \* red carpet
    <<"c","e","l","e","b","r","i","t","y">>,  \* celebrity
    <<"a","u","c","t","i","o","n">>,  \* auction
    <<"l","u","x","u","r","y">>  \* luxury
  >>

industry_terms ==
  <<
    <<"c","o","l","l","a","b","o","r","a","t","i","o","n">>,  \* collaboration
    <<"i","n","v","e","s","t","m","e","n","t">>,  \* investment
    <<"t","r","e","n","d","s">>,  \* trends
    <<"s","t","y","l","e">>  \* style
  >>

national_jeweler_excluded ==
  <<
    <<"h","t","t","p","s",":","/","/","n","a","t","i","o","n","a","l","j","e","w","e","l","e","r",".","c","o","m","/">>,  \* https://nationaljeweler.com/
    <<"h","t","t","p","s",":","/","/","n","a","t","i","o","n","a","l","j","e","w","e","l","e","r",".","c","o","m","/","i","n","d","u","s","t","r","y">>,  \* https://nationaljeweler.com/industry
    <<"h","t","t","p","s",":","/","/","n","a","t","i","o","n","a","l","j","e","w","e","l","e","r",".","c","o","m","/","i","n","d","u","s","t","r","y","/","i","n","d","u","s","t","r","y","-","o","t","h","e","r">>,  \* https://nationaljeweler.com/industry/industry-other
    <<"h","t","t","p","s",":","/","/","n","a","t","i","o","n","a","l","j","e","w","e","l","e","r",".","c","o","m","/","i","n","d","u","s","t","r","y","/","i","n","d","e","p","e","n","d","e","n","t","s">>,  \* https://nationaljeweler.com/industry/independents
    <<"h","t","t","p","s",":","/","/","n","a","t","i","o","n","a","l","j","e","w","e","l","e","r",".","c","o","m","/","i","n","d","u","s","t","r","y","/","e","v","e","n","t","s","-","a","w","a","r","d","s">>,  \* https://nationaljeweler.com/industry/events-awards
    <<"h","t","t","p","s",":","/","/","n","a","t","i","o","n","a","l","j","e","w","e","l","e","r",".","c","o","m","/","i","n","d","u","s","t","r","y","/","f","i","n","a","n","c","i","a","l","s">>,  \* https://nationaljeweler.com/industry/financials
    <<"h","t","t","p","s",":","/","/","n","a","t","i","o","n","a","l","j","e","w","e","l","e","r",".","c","o","m","/","i","n","d","u","s","t","r","y","/","s","u","p","p","l","i","e","r","-","b","u","l","l","e","t","i","n">>,  \* https://nationaljeweler.com/industry/supplier-bulletin
    <<"h","t","t","p","s",":","/","/","n","a","t","i","o","n","a","l","j","e","w","e","l","e","r",".","c","o","m","/","i","n","d","u","s","t","r","y","/","t","e","c","h","n","o","l","o","g","y">>,  \* https://nationaljeweler.com/industry/technology
    <<"h","t","t","p","s",":","/","/","n","a","t","i","o","n","a","l","j","e","w","e","l","e","r",".","c","o","m","/","i","n","d","u","s","t","r","y","/","s","u","r","v","e","y","s">>,  \* https://nationaljeweler.com/industry/surveys
    <<"h","t","t","p","s",":","/","/","n","a","t","i","o","n","a","l","j","e","w","e","l","e","r",".","c","o","m","/","i","n","d","u","s","t","r","y","/","p","o","l","i","c","i","e","s","-","i","s","s","u","e","s">>,  \* https://nationaljeweler.com/industry/policies-issues
    <<"h","t","t","p","s",":","/","/","n","a","t","i","o","n","a","l","j","e","w","e","l","e","r",".","c","o","m","/","i","n","d","u","s","t","r","y","/","c","r","i","m","e">>,  \* https://nationaljeweler.com/industry/crime
    <<"h","t","t","p","s",":","/","/","n","a","t","i","o","n","a","l","j","e","w","e","l","e","r",".","c","o","m","/","i","n","d","u","s","t","r","y","/","m","a","j","o","r","s">>,  \* https://nationaljeweler.com/industry/majors
    <<"h","t","t","p","s",":","/","/","n","a","t","i","o","n","a","l","j","e","w","e","l","e","r",".","c","o","m","/","d","i","a","m","o","n","d","s","-","g","e","m","s">>,  \* https://nationaljeweler.com/diamonds-gems
    <<"h","t","t","p","s",":","/","/","n","a","t","i","o","n","a","l","j","e","w","e","l","e","r",".","c","o","m","/","d","i","a","m","o","n","d","s","-","g","e","m","s","/","d","i","a","m","o","n","d","s","-","g","e","m","s","-","o","t","h","e","r">>,  \* https://nationaljeweler.com/diamonds-gems/diamonds-gems-other
    <<"h","t","t","p","s",":","/","/","n","a","t","i","o","n","a","l","j","e","w","e","l","e","r",".","c","o","m","/","d","i","a","m","o","n","d","s","-","g","e","m","s","/","l","a","b","-","g","r","o","w","n">>,  \* https://nationaljeweler.com/diamonds-gems/lab-grown
    <<"h","t","t","p","s",":","/","/","n","a","t","i","o","n","a","l","j","e","w","e","l","e","r",".","c","o","m","/","d","i","a","m","o","n","d","s","-","g","e","m","s","/","g","r","a","d","i","n","g">>,  \* https://nationaljeweler.com/diamonds-gems/grading
    <<"h","t","t","p","s",":","/","/","n","a","t","i","o","n","a","l","j","e","w","e","l","e","r",".","c","o","m","/","d","i","a","m","o","n","d","s","-","g","e","m","s","/","s","o","u","r","c","i","n","g">>,  \* https://nationaljeweler.com/diamonds-gems/sourcing
    <<"h","t","t","p","s",":","/","/","n","a","t","i","o","n","a","l","j","e","w","e","l","e","r",".","c","o","m","/","s","t","y","l","e">>,  \* https://nationaljeweler.com/style
    <<"h","t","t","p","s",":","/","/","n","a","t","i","o","n","a","l","j","e","w","e","l","e","r",".","c","o","m","/","s","t","y","l","e","/","s","t","y","l","e","-","o","t","h","e","r">>,  \* https://nationaljeweler.com/style/style-other
    <<"h","t","t","p","s",":","/","/","n","a","t","i","o","n","a","l","j","e","w","e","l","e","r",".","c","o","m","/","s","t","y","l","e","/","t","r","e","n","d","s">>,  \* https://nationaljeweler.com/style/trends
    <<"h","t","t","p","s",":","/","/","n","a","t","i","o","n","a","l","j","e","w","e","l","e","r",".","c","o","m","/","s","t","y","l","e","/","a","u","c","t","i","o","n","s">>,  \* https://nationaljeweler.com/style/auctions
    <<"h","t","t","p","s",":","/","/","n","a","t","i","o","n","a","l","j","e","w","e","l","e","r",".","c","o","m","/","s","t","y","l","e","/","w","a","t","c","h","e","s">>,  \* https://nationaljeweler.com/style/watches
    <<"h","t","t","p","s",":","/","/","n","a","t","i","o","n","a","l","j","e","w","e","l","e","r",".","c","o","m","/","s","t","y","l","e","/","c","o","l","l","e","c","t","i","o","n","s">>,  \* https://nationaljeweler.com/style/collections
    <<"h","t","t","p","s",":","/","/","n","a","t","i","o","n","a","l","j","e","w","e","l","e","r",".","c","o","m","/","o","p","i","n","i","o","n","s">>,  \* https://nationaljeweler.com/opinions
    <<"h","t","t","p","s",":","/","/","n","a","t","i","o","n","a","l","j","e","w","e","l","e","r",".","c","o","m","/","o","p","i","n","i","o","n","s","/","e","d","i","t","o","r","s">>,  \* https://nationaljeweler.com/opinions/editors
    <<"h","t","t","p","s",":","/","/","n","a","t","i","o","n","a","l","j","e","w","e","l","e","r",".","c","o","m","/","o","p","i","n","i","o","n","s","/","c","o","l","u","m","n","i","s","t","s">>  \* https://nationaljeweler.com/opinions/columnists
  >>

(***************************************************************************)
(* Scorers                                                                 *)
(***************************************************************************)
\* scores are counted in units of 1/Scale
Scale == 50

\* the keywords of luxury_keywords found in combined_text, in list order
FoundKeywords(combined_text) ==
  SelectSeq(luxury_keywords, LAMBDA keyword : Contains(combined_text, lower(keyword)))

\* STAGE 1 without .lower() on the combined text
calculate_title_relevance_score_cased(title, url) ==
  LET combined_text == Joined(title, url)
      found_keywords == FoundKeywords(combined_text)
  IN  [score |-> Len(found_keywords) * Scale, keywords |-> found_keywords]

\* STAGE 1: one point per keyword found in "title url"
calculate_title_relevance_score(title, url) ==
  LET combined_text == lower(Joined(title, url))
      found_keywords == FoundKeywords(combined_text)
  IN  [score |-> Len(found_keywords) * Scale, keywords |-> found_keywords]

\* the if/elif chain with the industry terms counted against the text
KeywordWeightPenalty(keyword) ==
  LET k == lower(keyword)
  IN  IF In(k, core_priority_keywords) THEN 4 * Scale
      ELSE IF In(k, primary_jewelry_terms) THEN 5 * Scale
      ELSE IF In(k, jewelry_pieces_and_materials) THEN 5 * Scale
      ELSE IF In(k, premium_luxury_brands) THEN (7 * Scale) \div 2
      ELSE IF In(k, fashion_and_luxury_terms) THEN (5 * Scale) \div 2
      ELSE IF In(k, events_and_celebrity) THEN 2 * Scale
      ELSE IF In(k, industry_terms) THEN 0 - (Scale \div 2)
      ELSE Scale

\* the if/elif chain of calculate_relevance_score: the test is
\* keyword.lower() in <category list>, the lists as written in the source
KeywordWeight(keyword) ==
  LET k == lower(keyword)
  IN  IF In(k, core_priority_keywords) THEN 4 * Scale
      ELSE IF In(k, primary_jewelry_terms) THEN 5 * Scale
      ELSE IF In(k, jewelry_pieces_and_materials) THEN 5 * Scale
      ELSE IF In(k, premium_luxury_brands) THEN (7 * Scale) \div 2
      ELSE IF In(k, fashion_and_luxury_terms) THEN (5 * Scale) \div 2
      ELSE IF In(k, events_and_celebrity) THEN 2 * Scale
      ELSE IF In(k, industry_terms) THEN Scale \div 2
      ELSE Scale

RECURSIVE SumWeights(_)
SumWeights(keywords) ==
  IF keywords = <<>> THEN 0
  ELSE KeywordWeight(Head(keywords)) + SumWeights(Tail(keywords))

\* the bonuses from 2 and from 4 keywords on
ApplyBonusFromTwo(score, n) ==
  LET s1 == IF n >= 2 THEN (score * 6) \div 5 ELSE score
  IN  IF n >= 4 THEN (s1 * 7) \div 5 ELSE s1

\* score *= 1.2 when more than 2 keywords match, then *= 1.4 when more than 4
ApplyBonus(score, n) ==
  LET s1 == IF n > 2 THEN (score * 6) \div 5 ELSE score
  IN  IF n > 4 THEN (s1 * 7) \div 5 ELSE s1

\* STAGE 2: full content scoring
calculate_relevance_score(title, content) ==
  LET combined_text == lower(Joined(title, content))
      found_keywords == FoundKeywords(combined_text)
  IN  [score |-> ApplyBonus(SumWeights(found_keywords), Len(found_keywords)),
       keywords |-> found_keywords]

(***************************************************************************)
(* Domain validation                                                       *)
(***************************************************************************)
core_luxury_terms ==
  << <<"j","e","w","e","l","l","e","r","y">>, <<"j","e","w","e","l","r","y">>, <<"j","e","w","e","l","e","r">>, <<"j","e","w","e","l","l","e","r">>,
     <<"d","i","a","m","o","n","d">>, <<"n","e","c","k","l","a","c","e">>, <<"b","r","a","c","e","l","e","t">>, <<"e","a","r","r","i","n","g">>, <<"r","i","n","g">>, <<"b","r","o","o","c","h">>, <<"p","e","n","d","a","n","t">>,
     <<"c","a","r","t","i","e","r">>, <<"t","i","f","f","a","n","y">>, <<"b","u","l","g","a","r","i">>, <<"c","h","a","n","e","l">>, <<"v","a","n"," ","c","l","e","e","f">>,
     <<"g","r","a","f","f">>, <<"h","a","r","r","y"," ","w","i","n","s","t","o","n">>, <<"c","h","o","p","a","r","d">>, <<"p","i","a","g","e","t">>, <<"b","o","u","c","h","e","r","o","n">>,
     <<"g","e","m","s","t","o","n","e">>, <<"e","m","e","r","a","l","d">>, <<"s","a","p","p","h","i","r","e">>, <<"r","u","b","y">>, <<"p","e","a","r","l">>,
     <<"f","i","n","e"," ","j","e","w","e","l","l","e","r","y">>, <<"h","i","g","h"," ","j","e","w","e","l","r","y">>, <<"h","a","u","t","e"," ","j","o","a","i","l","l","e","r","i","e">>,
     <<"l","u","x","u","r","y"," ","b","r","a","n","d">>, <<"l","u","x","u","r","y"," ","f","a","s","h","i","o","n">>, <<"l","u","x","u","r","y"," ","g","o","o","d","s">> >>

\* any(term in combined for term in core_luxury_terms)
is_luxury_relevant_content(title, content) ==
  LET combined == lower(Joined(title, content))
  IN  \E i \in 1..Len(core_luxury_terms) : Contains(combined, core_luxury_terms[i])

\* the verdict of check_article_relevance on the score: content_score > threshold
passes_score_threshold(content_score) == content_score > 3 * Scale

(***************************************************************************)
(* URL filter                                                              *)
(***************************************************************************)
\* is_relevant_url with the denylist compared with the url as given only
is_relevant_url_exact_only(url) ==
  LET url_lower == lower(url)
  IN  IF In(url, national_jeweler_excluded)
      THEN FALSE
      ELSE \E i \in 1..Len(luxury_keywords) :
             Contains(url_lower, lower(luxury_keywords[i]))

is_relevant_url(url) ==
  LET url_lower == lower(url)
      url_clean == rstrip(url, "/")
  IN  IF In(url_clean, national_jeweler_excluded) \/ In(url, national_jeweler_excluded)
      THEN FALSE
      ELSE \E i \in 1..Len(luxury_keywords) :
             Contains(url_lower, lower(luxury_keywords[i]))

(***************************************************************************)
(* The strings of the environment: the urls, titles and texts that the     *)
(* documents of the network are made of, and the results of the scorers    *)
(* and of the url filter on them.                                          *)
(***************************************************************************)
\* bounds of the environment
MaxSitemapEntries == 11
LargeSitemapEntries == 102

MinTextLen == 150

UrlGold == <<"t",".","u","k","/","g","o","l","d","-","c","u","f","f">>
UrlRuby == <<"t",".","u","k","/","r","u","b","y","-","s","a","l","e">>
UrlDior == <<"t",".","u","k","/","d","i","o","r","-","s","h","o","w">>
UrlTax == <<"t",".","u","k","/","t","a","x","-","r","i","s","e">>
UrlPost == <<"t",".","u","k","/","p","/","7","7">>
UrlDenied == <<"h","t","t","p","s",":","/","/","n","a","t","i","o","n","a","l","j","e","w","e","l","e","r",".","c","o","m","/","s","t","y","l","e","/">>
UrlChildA == <<"t",".","u","k","/","m","a","p","-","a",".","x","m","l">>
UrlChildB == <<"t",".","u","k","/","j","e","w","e","l","s","-","m","a","p",".","x","m","l">>

RECURSIVE DigitsOf(_)
\* str(n)
DigitsOf(n) ==
  LET d == <<"0", "1", "2", "3", "4", "5", "6", "7", "8", "9">>
  IN  IF n < 10 THEN <<d[n + 1]>> ELSE DigitsOf(n \div 10) \o <<d[(n % 10) + 1]>>

\* the i-th article of a large sitemap
RampUrl(i) == <<"t",".","u","k","/","g","o","l","d","-">> \o DigitsOf(i)

\* a text of n characters that begins with chars
Text(chars, n) == chars \o [i \in 1..(n - Len(chars)) |-> "."]

TextNecklace == Text(<<"a"," ","d","i","a","m","o","n","d"," ","n","e","c","k","l","a","c","e",","," ","a"," ","d","i","a","m","o","n","d"," ">>, MinTextLen)
TextGoldRuby == Text(<<"g","o","l","d"," ","a","n","d"," ","r","u","b","y"," ">>, MinTextLen + 1)
TextShort == Text(<<"g","o","l","d"," ","a","n","d"," ","r","u","b","y"," ">>, MinTextLen - 1)
TextStyle == Text(<<"B","y"," ","C","y"," ","D","e","e","."," ","s","t","y","l","e"," ">>, MinTextLen)
TextHigh == Text(<<"C","a","r","t","i","e","r"," ","e","m","e","r","a","l","d"," ","b","r","o","o","c","h"," ","a","n","d"," ","p","e","n","d","a","n","t"," ","a","t"," ","a","u","c","t","i","o","n"," ">>, MinTextLen)

KnownTexts == {TextNecklace, TextGoldRuby, TextShort, TextStyle, TextHigh}

TitleRubyWeek == <<" ","R","u","b","y"," ","w","e","e","k"," ">>
TitleTax == <<"T","a","x"," ","n","e","w","s">>
TitleRubySale == <<"R","u","b","y"," ","s","a","l","e">>

KnownTitles ==
  {<<>>, strip(TitleRubyWeek), TitleTax, TitleRubySale, <<"N","e","c","k","l","a","c","e"," ","n","e","w","s">>, <<"G","e","m","s">>, <<"S","a","l","e">>}

\* is_relevant_url on the urls of the environment
url_relevance == [url \in ({UrlGold, UrlRuby, UrlDior, UrlTax, UrlPost, UrlDenied, UrlChildA, UrlChildB}
                             \cup {RampUrl(i) : i \in 1..LargeSitemapEntries}) |-> is_relevant_url(url)]

\* calculate_title_relevance_score on the titles and urls of the environment
title_scores ==
  [title \in KnownTitles, url \in {UrlGold, UrlRuby, UrlTax, UrlPost} |->
     calculate_title_relevance_score(title, url)]

\* calculate_relevance_score on the titles and texts of the environment
content_scores ==
  [title \in KnownTitles, content \in KnownTexts |->
     calculate_relevance_score(title, content)]

\* is_luxury_relevant_content on the titles and texts of the environment
core_relevance ==
  [title \in KnownTitles, content \in KnownTexts |->
     is_luxury_relevant_content(title, content)]

(***************************************************************************)
(* HTTP                                                                    *)
(*                                                                         *)
(* The outcome of one GET is a response [status_code, content] or an       *)
(* exception [type, msg], msg being str(e); id tells the outcome of the   *)
(* first GET of a make_request call from the outcome of its second.        *)
(***************************************************************************)
Response(status, content, id) ==
  [kind |-> "response", status_code |-> status, content |-> content, id |-> id]

Exception(type, msg, id) ==
  [kind |-> "exception", type |-> type, msg |-> msg, id |-> id]

\* 'SSL' in error_msg or 'ssl' in error_msg.lower()
IsSSLError(error_msg) ==
  Contains(error_msg, <<"S","S","L">>) \/ Contains(lower(error_msg), <<"s","s","l">>)

\* make_request with a second GET after an answer that is not a 200
make_request_retry_refused(scraper_type, first, retry) ==
  IF first.kind = "response"
  THEN [rate_limit_calls |-> 1,
        gets |-> IF first.status_code = 200 THEN <<TRUE>> ELSE <<TRUE, TRUE>>,
        result |-> first]
  ELSE IF IsSSLError(first.msg) /\ scraper_type = "curl-cffi"
       THEN [rate_limit_calls |-> 1, gets |-> <<TRUE, FALSE>>,
             result |-> IF retry.kind = "response" THEN retry ELSE first]
       ELSE [rate_limit_calls |-> 1, gets |-> <<TRUE>>, result |-> first]

\* make_request(url): one apply_rate_limit call, the GET (first), and for
\* curl-cffi one GET more with verify=False after an SSL error (retry).
\* gets lists the value of verify of every GET issued; result is the
\* response returned or the exception raised to the caller.
make_request(scraper_type, first, retry) ==
  IF first.kind = "response"
  THEN [rate_limit_calls |-> 1, gets |-> <<TRUE>>, result |-> first]
  ELSE IF IsSSLError(first.msg) /\ scraper_type = "curl-cffi"
       THEN [rate_limit_calls |-> 1,
             gets |-> <<TRUE, FALSE>>,
             result |-> IF retry.kind = "response" THEN retry ELSE first]
       ELSE [rate_limit_calls |-> 1, gets |-> <<TRUE>>, result |-> first]

(***************************************************************************)
(* Sitemaps                                                                *)
(*                                                                         *)
(* A parsed XML document is [ok, tag, elems]; an element of the root is    *)
(* [loc, lastmod], each the empty sequence when the child element is       *)
(* missing and <<text>> when it is there (text <<>> is Python's None, the  *)
(* text of an empty element).  A body of a response is the document each   *)
(* decoding strategy yields: text (response.text), utf8 (the raw content   *)
(* as UTF-8), latin1 (ISO-8859-1), gzip (gzip.decompress then UTF-8).      *)
(***************************************************************************)
NoParse == [ok |-> FALSE, tag |-> "", elems |-> <<>>]

Doc(tag, elems) == [ok |-> TRUE, tag |-> tag, elems |-> elems]

Now == <<"n","o","w">>

\* a string strptime(s, '%Y-%m-%d') accepts
IsYmd(s) ==
  /\ Len(s) = 10
  /\ \A i \in {1, 2, 3, 4, 6, 7, 9, 10} : s[i] \in ({"0", "1", "2", "3", "4", "5", "6", "7", "8", "9"})
  /\ s[5] = "-" /\ s[8] = "-"

Prefix(s, n) == SubSeq(s, 1, IF Len(s) < n THEN Len(s) ELSE n)

\* the lastmod_date of a <url> element: the parsed date without its time
\* zone, or now when lastmod is missing or does not parse
parse_lastmod(lastmod) ==
  IF lastmod = <<>> THEN Now
  ELSE LET lastmod_str == lastmod[1]
       IN  IF lastmod_str = <<>> THEN Now
           ELSE IF Contains(lastmod_str, <<"T">>)
                THEN IF IsYmd(Prefix(lastmod_str, 10)) /\ Len(lastmod_str) > 11
                        /\ lastmod_str[11] = "T"
                     THEN rstrip(lastmod_str, "Z")
                     ELSE Now
                ELSE IF IsYmd(Prefix(lastmod_str, 10))
                     THEN Prefix(lastmod_str, 10)
                     ELSE Now

\* the loop over the elements of a root with urls.append under "if
\* lastmod_elem is not None": no pair for an element without lastmod
UrlPairsDated(elems) ==
  LET with_loc == SelectSeq(elems, LAMBDA e : e.loc # <<>> /\ e.lastmod # <<>>)
  IN  [i \in 1..Len(with_loc) |->
         [url |-> with_loc[i].loc[1],
          lastmod_date |-> parse_lastmod(with_loc[i].lastmod)]]

\* the loop over the elements of a root: one (url, lastmod_date) pair per
\* element that has a loc
UrlPairs(elems) ==
  LET with_loc == SelectSeq(elems, LAMBDA e : e.loc # <<>>)
  IN  [i \in 1..Len(with_loc) |->
         [url |-> with_loc[i].loc[1],
          lastmod_date |-> parse_lastmod(with_loc[i].lastmod)]]

\* fetch_urls_from_sitemap(sitemap_url), req the outcome of its make_request
fetch_urls_from_sitemap(req) ==
  IF req.result.kind = "exception" THEN <<>>
  ELSE IF req.result.status_code # 200 THEN <<>>
  ELSE LET root == req.result.content.utf8
       IN  IF root.ok THEN UrlPairs(root.elems) ELSE <<>>

\* the decoding strategies with strategy 3 not guarded by "if xml_content is
\* None": the ISO-8859-1 tree replaces the UTF-8 tree
DecodedRootUnguarded(body) ==
  IF body.text.ok THEN body.text
  ELSE IF body.latin1.ok THEN body.latin1
  ELSE IF body.utf8.ok THEN body.utf8
  ELSE IF body.gzip.ok THEN body.gzip
  ELSE NoParse

\* the four decoding strategies of fetch_sitemap_articles, first success wins
DecodedRoot(body) ==
  IF body.text.ok THEN body.text
  ELSE IF body.utf8.ok THEN body.utf8
  ELSE IF body.latin1.ok THEN body.latin1
  ELSE IF body.gzip.ok THEN body.gzip
  ELSE NoParse

Candidate(title, url, publication, published_date, summary, score, keywords) ==
  [title |-> title, url |-> url, publication |-> publication,
   published_date |-> published_date, summary |-> summary,
   author |-> <<"U","n","k","n","o","w","n">>, relevance_score |-> score,
   keywords_found |-> keywords, full_content |-> <<>>]

\* the loop over the entries of a sitemap index with "urls =" in the place
\* of "urls.extend": the urls of the last child that has a loc
SubSitemapUrlsLastOnly(elems, children, i) ==
  LET with_loc == {j \in i..Len(elems) : elems[j].loc # <<>>}
  IN  IF with_loc = {} THEN <<>>
      ELSE fetch_urls_from_sitemap(
             children[CHOOSE j \in with_loc : \A k \in with_loc : k <= j])

RECURSIVE SubSitemapUrls(_, _, _)
\* the loop over the entries of a sitemap index: child i is requested when
\* entry i has a loc; children[i] is the outcome of that request
SubSitemapUrls(elems, children, i) ==
  IF i > Len(elems) THEN <<>>
  ELSE (IF elems[i].loc # <<>> THEN fetch_urls_from_sitemap(children[i]) ELSE <<>>)
       \o SubSitemapUrls(elems, children, i + 1)

\* the URL relevance filter of fetch_sitemap_articles; a url of None makes
\* is_relevant_url raise, and the entry is skipped
FilterRelevant(urls, publication) ==
  LET relevant == SelectSeq(urls, LAMBDA u : u.url # <<>> /\ url_relevance[u.url])
  IN  [i \in 1..Len(relevant) |->
         Candidate(<<>>, relevant[i].url, publication, relevant[i].lastmod_date,
                   <<>>, 0, <<>>)]

\* the (url, lastmod) pairs fetch_sitemap_articles finds before filtering
SitemapUrls(req, children) ==
  IF req.result.kind = "exception" THEN <<>>
  ELSE IF req.result.status_code # 200 THEN <<>>
  ELSE LET root == DecodedRoot(req.result.content)
       IN  IF ~root.ok THEN <<>>
           ELSE IF root.tag = "sitemapindex"
                THEN SubSitemapUrls(root.elems, children, 1)
                ELSE IF root.tag = "urlset" THEN UrlPairs(root.elems)
                ELSE <<>>

\* the indexes of the index entries whose child sitemap is requested
SitemapChildren(req) ==
  IF req.result.kind = "exception" THEN {}
  ELSE IF req.result.status_code # 200 THEN {}
  ELSE LET root == DecodedRoot(req.result.content)
       IN  IF root.ok /\ root.tag = "sitemapindex"
           THEN {i \in 1..Len(root.elems) : root.elems[i].loc # <<>>}
           ELSE {}

\* fetch_sitemap_articles(publication, sitemap_url): req is the outcome of
\* the request of the sitemap, children[i] of the request of child i
fetch_sitemap_articles(publication, req, children) ==
  FilterRelevant(SitemapUrls(req, children), publication)

(***************************************************************************)
(* Feeds                                                                   *)
(*                                                                         *)
(* The content of a feed response is the sequence of entries feedparser    *)
(* finds in it (none for a body that is no feed); an entry is              *)
(* [title, link, summary, published], published <<>> when it is absent.    *)
(***************************************************************************)
\* any(domain in feed_url for domain in ['downjones.io', 'wsj.com', 'nytimes.com'])
is_premium(feed_url) ==
  \/ Contains(feed_url, <<"d","o","w","n","j","o","n","e","s",".","i","o">>)
  \/ Contains(feed_url, <<"w","s","j",".","c","o","m">>)
  \/ Contains(feed_url, <<"n","y","t","i","m","e","s",".","c","o","m">>)

\* the request of try_rss_feed: a bare scraper.get for a premium feed under
\* curl-cffi, make_request otherwise; no request for an empty feed_url
feed_request(scraper_type, feed_url, first, retry) ==
  IF feed_url = <<>>
  THEN [rate_limit_calls |-> 0, gets |-> <<>>, result |-> Exception("Exception", <<>>, "first")]
  ELSE IF is_premium(feed_url) /\ scraper_type = "curl-cffi"
       THEN [rate_limit_calls |-> 0, gets |-> <<TRUE>>, result |-> first]
       ELSE make_request(scraper_type, first, retry)

RECURSIVE FeedCandidatesAboveOne(_, _)
\* the loop over feed.entries with the test title_score > 1.0
FeedCandidatesAboveOne(entries, publication) ==
  IF entries = <<>> THEN <<>>
  ELSE LET entry == Head(entries)
           pub_date == IF entry.published # <<>> THEN entry.published[1] ELSE Now
           title == strip(entry.title)
           summary == strip(entry.summary)
           url == strip(entry.link)
           scored == title_scores[title, url]
       IN  (IF title = <<>> \/ url = <<>> THEN <<>>
            ELSE IF scored.score > 1 * Scale
                 THEN << Candidate(title, url, publication, pub_date, summary,
                                   scored.score, scored.keywords) >>
                 ELSE <<>>) \o FeedCandidatesAboveOne(Tail(entries), publication)

RECURSIVE FeedCandidates(_, _)
\* the loop over feed.entries
FeedCandidates(entries, publication) ==
  IF entries = <<>> THEN <<>>
  ELSE LET entry == Head(entries)
           pub_date == IF entry.published # <<>> THEN entry.published[1] ELSE Now
           title == strip(entry.title)
           summary == strip(entry.summary)
           url == strip(entry.link)
           scored == title_scores[title, url]
       IN  (IF title = <<>> \/ url = <<>> THEN <<>>
            ELSE IF scored.score >= 1 * Scale
                 THEN << Candidate(title, url, publication, pub_date, summary,
                                   scored.score, scored.keywords) >>
                 ELSE <<>>) \o FeedCandidates(Tail(entries), publication)

\* try_rss_feed(publication, feed_url), req the outcome of feed_request
try_rss_feed(publication, feed_url, req) ==
  IF feed_url = <<>> THEN <<>>
  ELSE IF req.result.kind = "exception" THEN <<>>
  ELSE IF req.result.status_code # 200 THEN <<>>
  ELSE FeedCandidates(req.result.content.entries, publication)

(***************************************************************************)
(* Content extraction                                                      *)
(*                                                                         *)
(* The content of an article response is what newspaper's Article.parse    *)
(* makes of the HTML: [parse_ok, title, text, meta_description, authors,   *)
(* jsonld, byline].  jsonld is the sequence of the page's                  *)
(* application/ld+json blocks, each [malformed, authors] with authors the  *)
(* values _get_author_from_jsonld returns for the block's "author"         *)
(* entries (<<>> for None); byline is the group re.search finds for the    *)
(* "By <Name>" pattern in title, meta description and text, <<>> if none.  *)
(***************************************************************************)
RECURSIVE FirstNonEmpty(_)
FirstNonEmpty(names) ==
  IF names = <<>> THEN <<>>
  ELSE IF Head(names) # <<>> THEN Head(names)
  ELSE FirstNonEmpty(Tail(names))

RECURSIVE JsonLdAuthorUntilMalformed(_)
\* stage 1 with one try around the loop: a malformed block ends the stage
JsonLdAuthorUntilMalformed(blocks) ==
  IF blocks = <<>> THEN <<>>
  ELSE LET b == Head(blocks)
           a == IF b.malformed THEN <<>> ELSE FirstNonEmpty(b.authors)
       IN  IF b.malformed THEN <<>>
           ELSE IF a # <<>> THEN a ELSE JsonLdAuthorUntilMalformed(Tail(blocks))

RECURSIVE JsonLdAuthor(_)
\* stage 1 of extract_author: the first author a well-formed block yields
JsonLdAuthor(blocks) ==
  IF blocks = <<>> THEN <<>>
  ELSE LET b == Head(blocks)
           a == IF b.malformed THEN <<>> ELSE FirstNonEmpty(b.authors)
       IN  IF a # <<>> THEN a ELSE JsonLdAuthor(Tail(blocks))

extract_author(article) ==
  LET author == JsonLdAuthor(article.jsonld)
  IN  IF author # <<>> THEN author
      ELSE IF article.authors # <<>> THEN article.authors[1]
      ELSE IF article.byline # <<>> THEN article.byline
      ELSE <<"U","n","k","n","o","w","n">>

\* extract_full_content without its except clause: the exception of the
\* request leaves the method
extract_full_content_uncaught(candidate, req) ==
  IF req.result.kind = "exception" THEN [raised |-> TRUE, value |-> <<>>]
  ELSE [raised |-> FALSE, value |-> <<>>]

\* extract_full_content(candidate), req the outcome of its make_request.
\* value is <<>> for None and <<candidate>> for the enhanced candidate;
\* raised tells that an exception leaves the method, which its
\* try/except Exception never lets happen.
extract_full_content(candidate, req) ==
  IF req.result.kind = "exception" THEN [raised |-> FALSE, value |-> <<>>]
  ELSE IF req.result.status_code # 200 THEN [raised |-> FALSE, value |-> <<>>]
  ELSE LET article == req.result.content
       IN  IF ~article.parse_ok THEN [raised |-> FALSE, value |-> <<>>]
           ELSE IF article.text = <<>> \/ Len(article.text) < MinTextLen
                THEN [raised |-> FALSE, value |-> <<>>]
           ELSE LET title == IF candidate.title = <<>> /\ article.title # <<>>
                             THEN article.title ELSE candidate.title
                    scored == content_scores[title, article.text]
                IN  [raised |-> FALSE,
                     value |-> << [candidate EXCEPT
                          !.full_content = article.text,
                          !.title = title,
                          !.relevance_score = scored.score,
                          !.keywords_found = scored.keywords,
                          !.author = extract_author(article),
                          !.summary =
                             IF article.meta_description # <<>>
                                /\ Len(article.meta_description) > Len(candidate.summary)
                             THEN article.meta_description ELSE candidate.summary] >>]

(***************************************************************************)
(* collect_from_source and the selection of collect_top_3_per_publication  *)
(***************************************************************************)
MinSitemapCandidates == 10
MaxDownloads == 100
TopK == 3

\* should_try_rss with the comparison len(all_candidates) <= 10
should_try_rss_inclusive(sitemap_tried, sitemap_succeeded, all_candidates) ==
  \/ ~sitemap_tried
  \/ ~sitemap_succeeded
  \/ Len(all_candidates) <= MinSitemapCandidates

\* should_try_rss of collect_from_source
should_try_rss(sitemap_tried, sitemap_succeeded, all_candidates) ==
  \/ ~sitemap_tried
  \/ ~sitemap_succeeded
  \/ Len(all_candidates) < MinSitemapCandidates

\* the "Remove duplicates" loop without seen_urls.add(candidate.url)
RemoveDuplicatesNeverSeen(all_candidates, seen_urls) ==
  SelectSeq(all_candidates, LAMBDA candidate : candidate.url \notin seen_urls)

RECURSIVE RemoveDuplicates(_, _)
\* the "Remove duplicates" loop run over all_candidates with seen_urls the
\* urls seen before: a candidate is kept when its url is not in seen_urls.
\* A list of more than one candidate is taken in two halves, the second
\* with the urls of the first added to seen_urls.
RemoveDuplicates(all_candidates, seen_urls) ==
  IF all_candidates = <<>> THEN <<>>
  ELSE IF Len(all_candidates) = 1
       THEN LET candidate == all_candidates[1]
            IN  IF candidate.url \notin seen_urls THEN <<candidate>> ELSE <<>>
       ELSE LET half == Len(all_candidates) \div 2
                front == SubSeq(all_candidates, 1, half)
                back == SubSeq(all_candidates, half + 1, Len(all_candidates))
            IN  RemoveDuplicates(front, seen_urls)
                  \o RemoveDuplicates(back,
                        seen_urls \cup {front[i].url : i \in 1..Len(front)})

\* the place of articles[i] when the articles are sorted in ascending
\* order and the list is reversed: equal scores come out in reverse order
SortedPositionReversed(articles, i) ==
  1 + Cardinality({j \in 1..Len(articles) :
                     \/ articles[j].relevance_score > articles[i].relevance_score
                     \/ /\ articles[j].relevance_score = articles[i].relevance_score
                        /\ j > i})

\* the place list.sort(key=relevance_score, reverse=True) gives to
\* articles[i]: behind every article of a greater score and behind the
\* earlier articles of the same score (the sort is stable)
SortedPosition(articles, i) ==
  1 + Cardinality({j \in 1..Len(articles) :
                     \/ articles[j].relevance_score > articles[i].relevance_score
                     \/ /\ articles[j].relevance_score = articles[i].relevance_score
                        /\ j < i})

\* publication_articles.sort(key=lambda x: x.relevance_score, reverse=True)
SortByScore(articles) ==
  [k \in 1..Len(articles) |->
     articles[CHOOSE i \in 1..Len(articles) : SortedPosition(articles, i) = k]]

\* publication_articles[-3:]
TopArticlesLast(publication_articles) ==
  SubSeq(publication_articles,
         IF Len(publication_articles) < TopK THEN 1
         ELSE Len(publication_articles) - TopK + 1,
         Len(publication_articles))

\* publication_articles[:3]
TopArticles(publication_articles) ==
  SubSeq(publication_articles, 1,
         IF Len(publication_articles) < TopK THEN Len(publication_articles) ELSE TopK)

\* max_downloads one short of min(len(candidates), 100)
max_downloads_short(candidates) ==
  (IF Len(candidates) < MaxDownloads THEN Len(candidates) ELSE MaxDownloads) - 1

\* max_downloads = min(len(candidates), 100)
max_downloads(candidates) ==
  IF Len(candidates) < MaxDownloads THEN Len(candidates) ELSE MaxDownloads

\* candidates[-max_downloads:]
download_slice_last(candidates) ==
  SubSeq(candidates, Len(candidates) - max_downloads(candidates) + 1, Len(candidates))

\* candidates[:max_downloads], the candidates the download loop goes over
download_slice(candidates) == SubSeq(candidates, 1, max_downloads(candidates))

\* "break" in the place of "continue": the loop over sources_to_use ends
next_iteration_break(i, sources) == Len(sources) + 1

\* the loop over sources_to_use goes on with the next publication after
\* "continue" and at the end of its body
next_iteration(i, sources) == i + 1

(***************************************************************************)
(* The source table (a part of target_sources: one publication with a      *)
(* sitemap and a feed, one with a sitemap only, one with a feed only)      *)
(***************************************************************************)
target_sources ==
  ("The Guardian" :>
      [sitemap_url |-> <<"h","t","t","p","s",":","/","/","w","w","w",".","t","h","e","g","u","a","r","d","i","a","n",".","c","o","m","/","s","i","t","e","m","a","p","s","/","n","e","w","s",".","x","m","l">>,
       rss_feeds |-> << <<"h","t","t","p","s",":","/","/","w","w","w",".","t","h","e","g","u","a","r","d","i","a","n",".","c","o","m","/","f","a","s","h","i","o","n","/","w","o","m","e","n","s","-","j","e","w","e","l","l","e","r","y","/","r","s","s">> >>]) @@
  ("The Times" :>
      [sitemap_url |-> <<"h","t","t","p","s",":","/","/","w","w","w",".","t","h","e","t","i","m","e","s",".","c","o","m","/","s","i","t","e","m","a","p","s","/","n","e","w","s">>,
       rss_feeds |-> <<>>]) @@
  ("Rapaport" :>
      [sitemap_url |-> <<>>,
       rss_feeds |-> << <<"h","t","t","p","s",":","/","/","r","a","p","a","p","o","r","t",".","c","o","m","/","r","s","s","/">> >>])

(***************************************************************************)
(* The environment: the documents the network can answer with              *)
(***************************************************************************)
Elem(url, lastmod) == [loc |-> <<url>>, lastmod |-> lastmod]

SmallUrlset ==
  Doc("urlset",
      << Elem(UrlGold, << <<"2","0","2","4","-","0","5","-","0","1">> >>),
         Elem(UrlTax, <<>>),
         Elem(UrlGold, << <<"y","e","s","t","e","r","d","a","y">> >>),
         [loc |-> <<>>, lastmod |-> <<>>],
         Elem(<<>>, <<>>),
         Elem(UrlDenied, <<>>),
         Elem(UrlRuby, << <<"2","0","2","4","-","0","5","-","0","2","T","1","0",":","0","0",":","0","0","Z">> >>) >>)

\* a urlset of n entries over the three urls of CycleUrls
CycleUrlset(n) ==
  Doc("urlset", [i \in 1..n |-> Elem((<<UrlGold, UrlRuby, UrlDior>>)[((i - 1) % 3) + 1], <<>>)])

\* a urlset of n distinct relevant urls
RampUrlset(n) == Doc("urlset", [i \in 1..n |-> Elem(RampUrl(i), <<>>)])

ChildUrlset == Doc("urlset", << Elem(UrlRuby, <<>>), Elem(UrlDior, << <<"2","0","2","4","-","0","5","-","0","3">> >>) >>)

\* a child of an index that is an index itself
NestedIndexDoc == Doc("sitemapindex", << Elem(UrlChildB, <<>>) >>)

\* bodies by the decoding strategies that parse them
PlainBody(root) == [text |-> root, utf8 |-> root, latin1 |-> root, gzip |-> NoParse]
Utf8Body(root) == [text |-> NoParse, utf8 |-> root, latin1 |-> root, gzip |-> NoParse]
GzipBody(root) == [text |-> NoParse, utf8 |-> NoParse, latin1 |-> NoParse, gzip |-> root]
BrokenBody == [text |-> NoParse, utf8 |-> NoParse, latin1 |-> NoParse, gzip |-> NoParse]

SitemapBodies(w) ==
  IF w = "large"
  THEN {PlainBody(RampUrlset(n)) :
          n \in {MaxDownloads - 1, MaxDownloads, MaxDownloads + 1, LargeSitemapEntries}}
  ELSE IF w = "plain" THEN {PlainBody(SmallUrlset), BrokenBody}
  ELSE {PlainBody(SmallUrlset), Utf8Body(Doc("urlset", << Elem(UrlDior, <<>>) >>)),
        BrokenBody, PlainBody(Doc("sitemapindex", << Elem(UrlChildA, <<>>), Elem(UrlChildB, <<>>) >>)),
        PlainBody(CycleUrlset(MinSitemapCandidates - 1)),
        PlainBody(CycleUrlset(MinSitemapCandidates)),
        GzipBody(CycleUrlset(MaxSitemapEntries))}

SSLError(id) == Exception("SSLError", <<"S","S","L",":"," ","C","E","R","T","I","F","I","C","A","T","E","_","V","E","R","I","F","Y","_","F","A","I","L","E","D">>, id)
TlsError(id) == Exception("SSLError", <<"c","u","r","l",":"," ","(","3","5",")"," ","s","s","l"," ","h","a","n","d","s","h","a","k","e"," ","f","a","i","l","u","r","e">>, id)
Timeout(id) == Exception("Timeout", <<"R","e","a","d"," ","t","i","m","e","d"," ","o","u","t">>, id)
\* the name of the host is a part of the message of a failure to resolve it
ResolveError(id) ==
  Exception("ConnectionError", <<"c","u","r","l",":"," ","(","6",")"," ","C","o","u","l","d"," ","n","o","t"," ","r","e","s","o","l","v","e"," ","h","o","s","t",":"," ","s","s","l","m","a","t","e",".","e","x","a","m","p","l","e">>, id)

\* the outcomes of a GET whose 200 answers carry one of bodies
GetOutcomes(bodies, id) ==
  {Response(200, b, id) : b \in bodies}
    \cup {Response(404, <<>>, id), SSLError(id), Timeout(id)}

\* the outcomes of the GET without verification, asked for only after an
\* SSL error of the first GET under curl-cffi
RetryOutcomes(scraper_type, first, bodies) ==
  IF first.kind = "exception" /\ IsSSLError(first.msg) /\ scraper_type = "curl-cffi"
  THEN {Response(200, b, "retry") : b \in bodies}
         \cup {Response(403, <<>>, "retry"), TlsError("retry")}
  ELSE {first}

FeedEntry(title, link, published) ==
  [title |-> title, link |-> link, summary |-> <<" ","a"," ","s","u","m","m","a","r","y">>, published |-> published]

FeedBodies ==
  { [entries |-> <<>>],
    [entries |-> << FeedEntry(TitleRubyWeek, UrlPost, << <<"2","0","2","4","-","0","5","-","0","4">> >>),
                    FeedEntry(TitleTax, UrlTax, <<>>),
                    FeedEntry(<<>>, UrlGold, <<>>),
                    FeedEntry(TitleRubySale, UrlRuby, <<>>) >>] }

Page(title, text, jsonld, authors, byline) ==
  [parse_ok |-> TRUE, title |-> title, text |-> text,
   meta_description |-> <<"a"," ","d","e","s","c","r","i","p","t","i","o","n">>, authors |-> authors,
   jsonld |-> jsonld, byline |-> byline]

PageNecklace ==
  Page(<<"N","e","c","k","l","a","c","e"," ","n","e","w","s">>, TextNecklace,
       << [malformed |-> TRUE, authors |-> << <<"B","a","d"," ","B","l","o","c","k">> >>],
          [malformed |-> FALSE, authors |-> << <<>>, <<"J","a","n","e"," ","R","o","e">> >>] >>,
       << <<"A","l"," ","B","o">> >>, <<>>)

PageGoldRuby ==
  Page(<<"G","e","m","s">>, TextGoldRuby, <<>>, << <<"A","l"," ","B","o">> >>, <<"C","y"," ","D","e","e">>)

PageShort ==
  Page(<<"G","e","m","s">>, TextShort, <<>>, <<>>, <<>>)

PageStyle == Page(<<>>, TextStyle, <<>>, <<>>, <<"C","y"," ","D","e","e">>)

PageHigh ==
  Page(<<"S","a","l","e">>, TextHigh,
       <<>>, <<>>, <<>>)

\* the answers of the network for the article at url: the urls of the small
\* documents have two answers each, the urls of a large sitemap one answer
\* that their last digit decides
ArticleOutcomes(url) ==
  IF url = UrlGold THEN {Response(200, PageNecklace, "first"), Timeout("first")}
  ELSE IF url = UrlRuby
       THEN {Response(200, PageGoldRuby, "first"), Response(200, PageShort, "first")}
  ELSE IF url = UrlDior THEN {Response(200, PageGoldRuby, "first"), Response(404, <<>>, "first")}
  ELSE IF url = UrlPost THEN {Response(200, PageStyle, "first"), Response(200, PageHigh, "first")}
  ELSE IF url = UrlChildB THEN {Response(200, ([PageStyle EXCEPT !.parse_ok = FALSE]), "first"), SSLError("first")}
  ELSE LET c == url[Len(url)]
       IN  IF c \in {"0", "5"} THEN {Response(404, <<>>, "first")}
           ELSE IF c = "9" THEN {Timeout("first")}
           ELSE IF c \in {"1", "2", "3"} THEN {Response(200, PageNecklace, "first")}
           ELSE {Response(200, PageStyle, "first")}

\* the 200 answers of the GET without verification for the article at url
ArticleRetryBodies(url) ==
  IF url = UrlChildB THEN {PageStyle} ELSE {PageNecklace}


(***************************************************************************)
(* The run of collect_top_3_per_publication                                *)
(***************************************************************************)
VARIABLES
  scraper_type,         \* 'curl-cffi', 'cloudscraper' or 'requests'
  web,                  \* the documents of the environment
  sources_to_use,       \* the publications of the run
  pub_i,                \* position of the loop over sources_to_use
  pc,                   \* stage of the source at pub_i, "done" or "aborted"
  sitemap_tried,
  sitemap_succeeded,
  sitemap_candidates,   \* what fetch_sitemap_articles returned
  feed_i,               \* position of the loop of try_multiple_rss_feeds
  rss_candidates,       \* all_candidates of try_multiple_rss_feeds
  all_candidates,       \* all_candidates of collect_from_source
  candidates,           \* the result of collect_from_source
  idx,                  \* number of candidates the download loop has taken
  discovered,           \* publication_articles in the order of appending
  publication_articles,
  final_3,
  all_articles,
  request_count,        \* apply_rate_limit calls
  get_count,            \* GETs issued
  feed_gets,            \* GETs issued for feeds of the source at pub_i
  last_request,         \* a make_request call: its inputs, GETs and result
  last_fetch,           \* the last download of the source at pub_i
  contributions,        \* of every source that was processed: its name, the
                        \* articles it gave and the number of candidates found
  observed,             \* a call of one method alone: its arguments, the
                        \* outcomes of its requests and its result
  clock,                \* time.time(), in ticks
  last_request_time,
  previous_request_time,  \* last_request_time before the last call of
                        \* apply_rate_limit, -1 before the first call
  random_delay,         \* random_delay of the last call of apply_rate_limit
  threads               \* of every thread that calls apply_rate_limit: where
                        \* it is in the call, when its sleeps end, the
                        \* request_count it has read and when it returned

vars ==
  <<scraper_type, web, sources_to_use, pub_i, pc, sitemap_tried, sitemap_succeeded,
    sitemap_candidates, feed_i, rss_candidates, all_candidates, candidates, idx,
    discovered, publication_articles, final_3, all_articles, request_count,
    get_count, feed_gets, last_request, last_fetch, contributions,
    observed,
    clock, last_request_time, previous_request_time, random_delay,
    threads>>

\* the runs of Spec: a web and the argument sources_subset (<<>> is None).
\* One source is run against the small web, which has every kind of
\* sitemap document; several sources are run against the plain web.
Runs ==
  {[web |-> "small", sources_subset |-> <<p>>] :
      p \in {"The Guardian", "The Times", "Rapaport"}}
    \cup {[web |-> "plain", sources_subset |-> s] :
            s \in {<<>>, <<"Vogue Japan">>, <<"The Guardian", "The Guardian">>,
                   <<"Rapaport", "Vogue Japan", "The Times">>,
                   <<"The Times", "The Guardian">>}}

\* what last_request keeps of the outcome of a GET
Summary(outcome) ==
  [kind |-> outcome.kind, id |-> outcome.id,
   status_code |-> IF outcome.kind = "response" THEN outcome.status_code ELSE 0,
   ssl_error |-> outcome.kind = "exception" /\ outcome.type = "SSLError",
   ssl_text |-> outcome.kind = "exception" /\ IsSSLError(outcome.msg)]

NoRequest ==
  [scraper_type |-> "", first |-> Summary(Response(0, <<>>, "first")),
   retry |-> Summary(Response(0, <<>>, "retry")), gets |-> <<>>,
   result |-> Summary(Response(0, <<>>, "first"))]

\* no method was called alone
NoCall == [op |-> "none"]

\* the threads that call apply_rate_limit on one collector
NumThreads == 2

Threads == 1..NumThreads

\* no download yet
NoFetch == [url |-> <<>>, kind |-> "none", status_code |-> 0, text_len |-> 0]

\* what last_fetch keeps of a download: the url of the candidate, the
\* outcome of make_request and the length of the text of the article
Fetched(url, result) ==
  [url |-> url, kind |-> result.kind,
   status_code |-> IF result.kind = "response" THEN result.status_code ELSE 0,
   text_len |-> IF result.kind = "response" /\ result.status_code = 200
                THEN Len(result.content.text) ELSE 0]

InitRun(runs) ==
  /\ scraper_type \in ({"curl-cffi", "cloudscraper", "requests"})
  /\ \E run \in runs :
       /\ web = run.web
       /\ sources_to_use = IF run.sources_subset # <<>> THEN run.sources_subset
                           ELSE (<<"The Guardian", "The Times", "Rapaport">>)
  /\ pub_i = 1
  /\ pc = "NotStarted"
  /\ sitemap_tried = FALSE
  /\ sitemap_succeeded = FALSE
  /\ sitemap_candidates = <<>>
  /\ feed_i = 1
  /\ rss_candidates = <<>>
  /\ all_candidates = <<>>
  /\ candidates = <<>>
  /\ idx = 0
  /\ discovered = <<>>
  /\ publication_articles = <<>>
  /\ final_3 = <<>>
  /\ all_articles = <<>>
  /\ request_count = 0
  /\ get_count = 0
  /\ feed_gets = 0
  /\ last_request = NoRequest
  /\ last_fetch = NoFetch
  /\ contributions = <<>>
  /\ observed = NoCall
  /\ clock = 0
  /\ last_request_time = 0
  /\ previous_request_time = -1
  /\ random_delay = 0
  /\ threads = [t \in Threads |-> ([pc |-> "idle", wake |-> 0, loaded |-> 0, returned_at |-> 0 - 1])]

Init == InitRun(Runs)

publication == sources_to_use[pub_i]

source_info == target_sources[publication]

RECURSIVE SumGets(_, _)
\* the number of GETs of the calls of a set of children
SumGets(children, kids) ==
  IF kids = {} THEN 0
  ELSE LET k == CHOOSE x \in kids : TRUE
       IN  Len(children[k].gets) + SumGets(children, kids \ {k})

\* the calls make_request can come to for one request
Calls(type, bodies, retry_bodies) ==
  UNION { {make_request(type, first, retry) :
             retry \in RetryOutcomes(type, first, retry_bodies)} :
          first \in GetOutcomes(bodies, "first") }

\* the locals of one iteration of the loop over sources_to_use
ResetLocals ==
  /\ sitemap_tried' = FALSE
  /\ sitemap_succeeded' = FALSE
  /\ sitemap_candidates' = <<>>
  /\ feed_i' = 1
  /\ rss_candidates' = <<>>
  /\ all_candidates' = <<>>
  /\ candidates' = <<>>
  /\ idx' = 0
  /\ discovered' = <<>>
  /\ publication_articles' = <<>>
  /\ final_3' = <<>>
  /\ feed_gets' = 0
  /\ last_fetch' = NoFetch

\* for publication in sources_to_use: if publication not in
\* self.target_sources: continue
SkipSource ==
  /\ pc = "NotStarted"
  /\ pub_i <= Len(sources_to_use)
  /\ publication \notin DOMAIN target_sources
  /\ pub_i' = next_iteration(pub_i, sources_to_use)
  /\ UNCHANGED <<scraper_type, web, sources_to_use, pc, sitemap_tried,
                 sitemap_succeeded, sitemap_candidates, feed_i, rss_candidates,
                 all_candidates, candidates, idx, discovered, publication_articles,
                 final_3, all_articles, request_count, get_count, feed_gets,
                 last_request, last_fetch, contributions,
                 observed,
                 clock, last_request_time, previous_request_time, random_delay,
                 threads>>

\* collect_from_source, Method 1: the sitemap attempt of a source that has
\* a sitemap_url
AttemptSitemap ==
  /\ pc = "NotStarted"
  /\ pub_i <= Len(sources_to_use)
  /\ publication \in DOMAIN target_sources
  /\ source_info.sitemap_url # <<>>
  /\ \E req \in Calls(scraper_type, SitemapBodies(web), {PlainBody(SmallUrlset)}) :
       \E children \in [SitemapChildren(req) ->
                          Calls(scraper_type, ({PlainBody(ChildUrlset), PlainBody(NestedIndexDoc)}), {PlainBody(ChildUrlset)})] :
         LET kids == SitemapChildren(req)
             found == fetch_sitemap_articles(publication, req, children)
         IN  /\ sitemap_tried' = TRUE
             /\ sitemap_succeeded' = (found # <<>>)
             /\ sitemap_candidates' = found
             /\ all_candidates' = found
             /\ request_count' = request_count + 1 + Cardinality(kids)
             /\ get_count' = get_count + Len(req.gets) + SumGets(children, kids)
  /\ pc' = "SitemapAttempted"
  /\ UNCHANGED <<scraper_type, web, sources_to_use, pub_i, feed_i, rss_candidates,
                 candidates, idx, discovered, publication_articles, final_3,
                 all_articles, feed_gets, last_request, last_fetch, contributions,
                 observed,
                 clock, last_request_time, previous_request_time, random_delay,
                 threads>>

\* collect_from_source of a source without sitemap_url: no sitemap attempt
NoSitemap ==
  /\ pc = "NotStarted"
  /\ pub_i <= Len(sources_to_use)
  /\ publication \in DOMAIN target_sources
  /\ source_info.sitemap_url = <<>>
  /\ pc' = "SitemapAttempted"
  /\ UNCHANGED <<scraper_type, web, sources_to_use, pub_i, sitemap_tried,
                 sitemap_succeeded, sitemap_candidates, feed_i, rss_candidates,
                 all_candidates, candidates, idx, discovered, publication_articles,
                 final_3, all_articles, request_count, get_count, feed_gets,
                 last_request, last_fetch, contributions,
                 observed,
                 clock, last_request_time, previous_request_time, random_delay,
                 threads>>

\* if should_try_rss and source_info.get('rss_feeds')
TriesRss ==
  /\ should_try_rss(sitemap_tried, sitemap_succeeded, all_candidates)
  /\ source_info.rss_feeds # <<>>

\* one iteration of the loop of try_multiple_rss_feeds; the last one ends
\* with all_candidates.extend(rss_candidates) of collect_from_source
TryFeed ==
  /\ pc \in {"SitemapAttempted", "RssAttempted"}
  /\ TriesRss
  /\ feed_i <= Len(source_info.rss_feeds)
  /\ LET feed_url == source_info.rss_feeds[feed_i]
     IN  \E first \in GetOutcomes(FeedBodies, "first") :
           \E retry \in RetryOutcomes(scraper_type, first, FeedBodies) :
             LET req == feed_request(scraper_type, feed_url, first, retry)
                 found == rss_candidates \o try_rss_feed(publication, feed_url, req)
             IN  /\ rss_candidates' = found
                 /\ all_candidates' = IF feed_i = Len(source_info.rss_feeds)
                                      THEN all_candidates \o found
                                      ELSE all_candidates
                 /\ request_count' = request_count + req.rate_limit_calls
                 /\ get_count' = get_count + Len(req.gets)
                 /\ feed_gets' = feed_gets + Len(req.gets)
  /\ feed_i' = feed_i + 1
  /\ pc' = "RssAttempted"
  /\ UNCHANGED <<scraper_type, web, sources_to_use, pub_i, sitemap_tried,
                 sitemap_succeeded, sitemap_candidates, candidates, idx, discovered,
                 publication_articles, final_3, all_articles, last_request,
                 last_fetch, contributions,
                 observed,
                 clock, last_request_time, previous_request_time, random_delay,
                 threads>>

\* collect_from_source, "Remove duplicates", and its return
Deduplicate ==
  /\ \/ pc = "SitemapAttempted" /\ ~TriesRss
     \/ pc = "RssAttempted" /\ feed_i > Len(source_info.rss_feeds)
  /\ candidates' = RemoveDuplicates(all_candidates, {})
  /\ pc' = "Deduplicated"
  /\ UNCHANGED <<scraper_type, web, sources_to_use, pub_i, sitemap_tried,
                 sitemap_succeeded, sitemap_candidates, feed_i, rss_candidates,
                 all_candidates, idx, discovered, publication_articles, final_3,
                 all_articles, request_count, get_count, feed_gets, last_request,
                 last_fetch, contributions,
                 observed,
                 clock, last_request_time, previous_request_time, random_delay,
                 threads>>

\* if not candidates: ... continue
NoCandidates ==
  /\ pc = "Deduplicated"
  /\ candidates = <<>>
  /\ contributions' = Append(contributions,
                           [publication |-> publication, articles |-> <<>>,
                            found |-> Len(all_candidates)])
  /\ pub_i' = next_iteration(pub_i, sources_to_use)
  /\ pc' = "NotStarted"
  /\ ResetLocals
  /\ UNCHANGED <<scraper_type, web, sources_to_use, all_articles, request_count,
                 get_count, last_request,
                 observed,
                 clock, last_request_time, previous_request_time, random_delay,
                 threads>>

\* one iteration of the download loop over candidates[:max_downloads]; the
\* candidate lists keep the candidates as collect_from_source returned
\* them, the enhanced candidate goes to publication_articles
Download ==
  /\ pc = "Deduplicated"
  /\ candidates # <<>>
  /\ idx < max_downloads(candidates)
  /\ LET candidate == download_slice(candidates)[idx + 1]
     IN  \E first \in ArticleOutcomes(candidate.url) :
           \E retry \in RetryOutcomes(scraper_type, first,
                                      ArticleRetryBodies(candidate.url)) :
             LET req == make_request(scraper_type, first, retry)
                 enhanced == extract_full_content(candidate, req)
             IN  /\ request_count' = request_count + 1
                 /\ get_count' = get_count + Len(req.gets)
                 /\ last_fetch' = Fetched(candidate.url, req.result)
                 /\ IF enhanced.raised
                    THEN /\ pc' = "aborted"
                         /\ UNCHANGED <<idx, discovered, publication_articles>>
                    ELSE /\ discovered' = discovered \o enhanced.value
                         /\ publication_articles' = publication_articles \o enhanced.value
                         /\ idx' = idx + 1
                         /\ pc' = IF idx + 1 >= max_downloads(candidates) \/ idx >= 99
                                  THEN "ContentScored" ELSE "Deduplicated"
  /\ UNCHANGED <<scraper_type, web, sources_to_use, pub_i, sitemap_tried,
                 sitemap_succeeded, sitemap_candidates, feed_i, rss_candidates,
                 all_candidates, candidates, final_3, all_articles, feed_gets,
                 last_request, contributions,
                 observed,
                 clock, last_request_time, previous_request_time, random_delay,
                 threads>>

\* STAGE 3: sort by relevance score, select the top 3, extend all_articles
Select ==
  /\ pc = "ContentScored"
  /\ publication_articles' = SortByScore(publication_articles)
  /\ final_3' = TopArticles(publication_articles')
  /\ all_articles' = all_articles \o final_3'
  /\ pc' = "Selected"
  /\ UNCHANGED <<scraper_type, web, sources_to_use, pub_i, sitemap_tried,
                 sitemap_succeeded, sitemap_candidates, feed_i, rss_candidates,
                 all_candidates, candidates, idx, discovered, request_count,
                 get_count, feed_gets, last_request, last_fetch, contributions,
                 observed,
                 clock, last_request_time, previous_request_time, random_delay,
                 threads>>

\* the end of an iteration of the loop over sources_to_use
NextSource ==
  /\ pc = "Selected"
  /\ contributions' = Append(contributions,
                           [publication |-> publication, articles |-> final_3,
                            found |-> Len(all_candidates)])
  /\ pub_i' = next_iteration(pub_i, sources_to_use)
  /\ pc' = "NotStarted"
  /\ ResetLocals
  /\ UNCHANGED <<scraper_type, web, sources_to_use, all_articles, request_count,
                 get_count, last_request,
                 observed,
                 clock, last_request_time, previous_request_time, random_delay,
                 threads>>

\* return all_articles
Finish ==
  /\ pc = "NotStarted"
  /\ pub_i > Len(sources_to_use)
  /\ pc' = "done"
  /\ UNCHANGED <<scraper_type, web, sources_to_use, pub_i, sitemap_tried,
                 sitemap_succeeded, sitemap_candidates, feed_i, rss_candidates,
                 all_candidates, candidates, idx, discovered, publication_articles,
                 final_3, all_articles, request_count, get_count, feed_gets,
                 last_request, last_fetch, contributions,
                 observed,
                 clock, last_request_time, previous_request_time, random_delay,
                 threads>>

Next ==
  \/ SkipSource
  \/ AttemptSitemap
  \/ NoSitemap
  \/ TryFeed
  \/ Deduplicate
  \/ NoCandidates
  \/ Download
  \/ Select
  \/ NextSource
  \/ Finish

Spec == Init /\ [][Next]_vars

\* runs over the large sitemaps, which hold more urls than the download cap
InitLarge ==
  InitRun({[web |-> "large",
            sources_subset |-> <<"Vogue Japan", "Rapaport", "The Guardian">>]})

SpecLarge == InitLarge /\ [][Next]_vars

\* the calls of make_request: every backend, every outcome of the first
\* GET and of the GET without verification
RequestOutcomes(id) ==
  {Response(c, <<>>, id) : c \in {200, 403, 404, 429}}
    \cup {SSLError(id), TlsError(id), Timeout(id), ResolveError(id)}

InitRequest ==
  InitRun({[web |-> "none", sources_subset |-> <<"Vogue Japan">>]})

Request ==
  /\ web = "none"
  /\ last_request = NoRequest
  /\ observed = NoCall
  /\ \E first \in RequestOutcomes("first") :
       \E retry \in RequestOutcomes("retry") :
         LET r == make_request(scraper_type, first, retry)
         IN  last_request' =
               [scraper_type |-> scraper_type, first |-> Summary(first),
                retry |-> Summary(retry), gets |-> r.gets,
                result |-> Summary(r.result)]
  /\ UNCHANGED <<scraper_type, web, sources_to_use, pub_i, pc, sitemap_tried,
                 sitemap_succeeded, sitemap_candidates, feed_i, rss_candidates,
                 all_candidates, candidates, idx, discovered, publication_articles,
                 final_3, all_articles, request_count, get_count, feed_gets,
                 last_fetch, contributions,
                 observed,
                 clock, last_request_time, previous_request_time, random_delay,
                 threads>>

SpecRequest == InitRequest /\ [][Request]_vars

(***************************************************************************)
(* Calls of one method alone: fetch_sitemap_articles, try_rss_feed and     *)
(* extract_full_content on the answers of the network, make_request as in  *)
(* Request.  observed keeps the arguments, the outcomes of the requests    *)
(* and the result of the call.                                             *)
(***************************************************************************)
MaxIndexEntries == 2

\* a urlset whose entries have an old, an unparseable, an empty and a
\* missing lastmod, and an entry without loc
LastmodUrlset ==
  Doc("urlset",
      << Elem(UrlGold, << <<"1","9","9","9","-","1","2","-","3","1">> >>),
         Elem(UrlRuby, << <<"T","h","u","r","s","d","a","y">> >>),
         Elem(UrlDior, << <<>> >>),
         [loc |-> <<>>, lastmod |-> << <<"2","0","2","4","-","0","5","-","0","1">> >>],
         Elem(UrlTax, <<>>) >>)

\* a sitemap index of n children
IndexOf(n) ==
  Doc("sitemapindex",
      [i \in 1..n |-> Elem(IF i % 2 = 1 THEN UrlChildA ELSE UrlChildB, <<>>)])

AloneSitemapBodies ==
  {PlainBody(SmallUrlset), PlainBody(LastmodUrlset),
   Utf8Body(Doc("urlset", << Elem(UrlDior, <<>>) >>)),
   \* bytes that parse to one tree as UTF-8 and to another one as ISO-8859-1
   [text |-> NoParse, utf8 |-> Doc("urlset", << Elem(UrlDior, <<>>) >>),
    latin1 |-> Doc("urlset", << Elem(UrlGold, <<>>) >>), gzip |-> NoParse],
   \* bytes that parse as ISO-8859-1 only
   [text |-> NoParse, utf8 |-> NoParse, latin1 |-> ChildUrlset, gzip |-> NoParse],
   GzipBody(CycleUrlset(3)), BrokenBody, PlainBody(IndexOf(MaxIndexEntries)),
   \* a sitemap index with an entry that has no loc
   PlainBody(Doc("sitemapindex",
                 << Elem(UrlChildA, <<>>), [loc |-> <<>>, lastmod |-> <<>>],
                    Elem(UrlChildB, <<>>) >>))}

AloneChildBodies ==
  {PlainBody(CycleUrlset(5)), PlainBody(ChildUrlset), PlainBody(LastmodUrlset),
   PlainBody(NestedIndexDoc), BrokenBody}

\* the feeds of the calls of try_rss_feed alone: the feeds of the pipeline
\* and one with two keywords in an entry, an entry without link, a keyword
\* in the link only and an entry without keyword
AloneFeedBodies ==
  FeedBodies \cup
    { [entries |-> << FeedEntry(<<"N","e","c","k","l","a","c","e"," ","n","e","w","s">>, UrlGold, <<>>),
                      FeedEntry(<<"G","e","m","s">>, <<>>, <<>>),
                      FeedEntry(<<" ","S","a","l","e">>, UrlGold, << <<"2","0","2","4","-","0","5","-","0","4">> >>),
                      FeedEntry(<<"S","a","l","e">>, UrlTax, <<>>) >>] }

\* the statuses of a blocked or limited request
Refusals(id) == {Response(c, <<>>, id) : c \in {403, 429}}

\* fetch_sitemap_articles(publication, sitemap_url) alone
ResolveSitemap ==
  /\ web = "none"
  /\ last_request = NoRequest
  /\ observed = NoCall
  /\ \E req \in Calls(scraper_type, AloneSitemapBodies, {PlainBody(SmallUrlset)}) :
       \E children \in [SitemapChildren(req) ->
                          Calls(scraper_type, AloneChildBodies, {PlainBody(ChildUrlset)})] :
         observed' =
           [op |-> "fetch_sitemap_articles", scraper_type |-> scraper_type,
            req |-> req, children |-> children,
            urls |-> SitemapUrls(req, children),
            candidates |-> fetch_sitemap_articles("The Times", req, children),
            requests |-> 1 + Cardinality(SitemapChildren(req)),
            raised |-> FALSE]
  /\ UNCHANGED <<scraper_type, web, sources_to_use, pub_i, pc, sitemap_tried,
                 sitemap_succeeded, sitemap_candidates, feed_i, rss_candidates,
                 all_candidates, candidates, idx, discovered, publication_articles,
                 final_3, all_articles, request_count, get_count, feed_gets,
                 last_request, last_fetch, contributions,
                 clock, last_request_time, previous_request_time, random_delay,
                 threads>>

\* try_rss_feed(publication, feed_url) alone
ParseFeed ==
  /\ web = "none"
  /\ last_request = NoRequest
  /\ observed = NoCall
  /\ \E feed_url \in ({target_sources["The Guardian"].rss_feeds[1], (<<"h","t","t","p","s",":","/","/","f","e","e","d","s",".","c","o","n","t","e","n","t",".","d","o","w","n","j","o","n","e","s",".","i","o","/","p","u","b","l","i","c","/","r","s","s","/","R","S","S","L","i","f","e","s","t","y","l","e">>)}) :
       \E first \in GetOutcomes(AloneFeedBodies, "first") \cup Refusals("first") :
         \E retry \in RetryOutcomes(scraper_type, first, AloneFeedBodies) :
           LET req == feed_request(scraper_type, feed_url, first, retry)
           IN  observed' =
                 [op |-> "try_rss_feed", scraper_type |-> scraper_type,
                  feed_url |-> feed_url, req |-> req,
                  candidates |-> try_rss_feed("The Guardian", feed_url, req),
                  requests |-> 1, raised |-> FALSE]
  /\ UNCHANGED <<scraper_type, web, sources_to_use, pub_i, pc, sitemap_tried,
                 sitemap_succeeded, sitemap_candidates, feed_i, rss_candidates,
                 all_candidates, candidates, idx, discovered, publication_articles,
                 final_3, all_articles, request_count, get_count, feed_gets,
                 last_request, last_fetch, contributions,
                 clock, last_request_time, previous_request_time, random_delay,
                 threads>>

\* extract_full_content(candidate) alone
ExtractContent ==
  /\ web = "none"
  /\ last_request = NoRequest
  /\ observed = NoCall
  /\ \E url \in {UrlGold, UrlRuby, UrlDior, UrlPost, UrlChildB} :
       \E first \in ArticleOutcomes(url) \cup Refusals("first") :
         \E retry \in RetryOutcomes(scraper_type, first, ArticleRetryBodies(url)) :
           LET candidate == Candidate(<<>>, url, "The Times", Now, <<>>, 0, <<>>)
               req == make_request(scraper_type, first, retry)
               enhanced == extract_full_content(candidate, req)
           IN  observed' =
                 [op |-> "extract_full_content", scraper_type |-> scraper_type,
                  candidate |-> candidate, req |-> req,
                  value |-> enhanced.value, requests |-> 1,
                  raised |-> enhanced.raised]
  /\ UNCHANGED <<scraper_type, web, sources_to_use, pub_i, pc, sitemap_tried,
                 sitemap_succeeded, sitemap_candidates, feed_i, rss_candidates,
                 all_candidates, candidates, idx, discovered, publication_articles,
                 final_3, all_articles, request_count, get_count, feed_gets,
                 last_request, last_fetch, contributions,
                 clock, last_request_time, previous_request_time, random_delay,
                 threads>>

\* extract_author(article, text) alone
ExtractAuthor ==
  /\ web = "none"
  /\ last_request = NoRequest
  /\ observed = NoCall
  /\ \E jsonld \in ({ <<>>,
                      << [malformed |-> TRUE, authors |-> << <<"B","a","d"," ","B","l","o","c","k">> >>] >>,
                      << [malformed |-> TRUE, authors |-> << <<"B","a","d"," ","B","l","o","c","k">> >>],
                         [malformed |-> FALSE, authors |-> << <<>>, <<"J","a","n","e"," ","R","o","e">>, <<"A","n","n"," ","P","o","e">> >>] >>,
                      << [malformed |-> FALSE, authors |-> << <<>> >>],
                         [malformed |-> FALSE, authors |-> <<>>] >>,
                      << [malformed |-> FALSE, authors |-> << <<>> >>],
                         [malformed |-> TRUE, authors |-> <<>>],
                         [malformed |-> FALSE, authors |-> << <<"A","n","n"," ","P","o","e">> >>] >> }) :
       \E authors \in {<<>>, << <<"A","l"," ","B","o">>, <<"E","d"," ","F","o","x">> >>} :
         \E byline \in {<<>>, <<"C","y"," ","D","e","e">>} :
           LET article == Page(<<>>, TextStyle, jsonld, authors, byline)
           IN  observed' = [op |-> "extract_author", article |-> article,
                            value |-> extract_author(article)]
  /\ UNCHANGED <<scraper_type, web, sources_to_use, pub_i, pc, sitemap_tried,
                 sitemap_succeeded, sitemap_candidates, feed_i, rss_candidates,
                 all_candidates, candidates, idx, discovered, publication_articles,
                 final_3, all_articles, request_count, get_count, feed_gets,
                 last_request, last_fetch, contributions,
                 clock, last_request_time, previous_request_time, random_delay,
                 threads>>

\* the decoding strategies of search_url_in_sitemap.  xml_content is
\* assigned response.text before ET.fromstring is called, and the except
\* clauses of strategies 1 and 2 are "pass": after strategy 1 xml_content is
\* not None whether the text parsed or not, and strategies 2 and 3 stand
\* under "if xml_content is None".  A root that is not ok is a root that was
\* never assigned.
SearchDecoded(body) ==
  LET first == [xml_content |-> "response.text", root |-> body.text]
      second == IF first.xml_content = "None"
                THEN [xml_content |-> "utf-8", root |-> body.utf8]
                ELSE first
  IN  IF second.xml_content = "None"
      THEN [xml_content |-> "gzip", root |-> body.gzip]
      ELSE second

\* all_urls of search_url_in_sitemap
SearchUrls(root, children) ==
  IF root.tag = "sitemapindex" THEN SubSitemapUrls(root.elems, children, 1)
  ELSE IF root.tag = "urlset"
       THEN LET with_loc == SelectSeq(root.elems, LAMBDA e : e.loc # <<>>)
            IN  [i \in 1..Len(with_loc) |->
                   [url |-> with_loc[i].loc[1], lastmod_date |-> Now]]
       ELSE <<>>

\* the result {'found': False, 'error': ...}
SearchError == [found |-> FALSE, error |-> TRUE, total_urls_in_sitemap |-> 0 - 1,
                url |-> <<>>, is_relevant |-> FALSE]

RECURSIVE SearchFrom(_, _, _)
\* the loop "for url, pub_date in all_urls" from position i on, and the two
\* results after it; a url that is None raises at url.rstrip or url.lower
SearchFrom(all_urls, search_url, i) ==
  IF i > Len(all_urls)
  THEN IF \E k \in 1..Len(all_urls) : all_urls[k].url = <<>>
       THEN SearchError
       ELSE [found |-> FALSE, error |-> FALSE,
             total_urls_in_sitemap |-> Len(all_urls), url |-> <<>>,
             is_relevant |-> FALSE]
  ELSE LET url == all_urls[i].url
       IN  IF url = search_url \/ (url # <<>> /\ rstrip(search_url, "/") = rstrip(url, "/"))
           THEN [found |-> TRUE, error |-> FALSE,
                 total_urls_in_sitemap |-> Len(all_urls), url |-> url,
                 is_relevant |-> url_relevance[url]]
           ELSE IF url = <<>> THEN SearchError
           ELSE SearchFrom(all_urls, search_url, i + 1)

\* search_url_in_sitemap(publication, search_url): req is the outcome of
\* the request of the sitemap, children[i] of the request of child i
search_url_in_sitemap(source_name, search_url, req, children) ==
  IF source_name \notin DOMAIN target_sources THEN SearchError
  ELSE IF target_sources[source_name].sitemap_url = <<>> THEN SearchError
  ELSE IF req.result.kind = "exception" THEN SearchError
  ELSE IF req.result.status_code # 200 THEN SearchError
  ELSE LET root == SearchDecoded(req.result.content).root
       IN  IF ~root.ok THEN SearchError
           ELSE SearchFrom(SearchUrls(root, children), search_url, 1)

\* the indexes of the index entries whose child sitemap the search requests
SearchChildren(source_name, req) ==
  IF source_name \notin DOMAIN target_sources THEN {}
  ELSE IF target_sources[source_name].sitemap_url = <<>> THEN {}
  ELSE IF req.result.kind = "exception" THEN {}
  ELSE IF req.result.status_code # 200 THEN {}
  ELSE LET root == SearchDecoded(req.result.content).root
       IN  IF root.ok /\ root.tag = "sitemapindex"
           THEN {i \in 1..Len(root.elems) : root.elems[i].loc # <<>>}
           ELSE {}

\* search_url_in_sitemap(publication, search_url) alone
SearchSitemap ==
  /\ web = "none"
  /\ last_request = NoRequest
  /\ observed = NoCall
  /\ \E source_name \in {"The Guardian", "Rapaport", "Vogue Japan"} :
       \E search_url \in {UrlDior, UrlDior \o <<"/">>, UrlTax} :
         \E req \in IF source_name = "The Guardian"
                    THEN Calls(scraper_type, ({PlainBody(ChildUrlset), PlainBody(SmallUrlset), Utf8Body(ChildUrlset),
                                               GzipBody(CycleUrlset(3)), BrokenBody, PlainBody(IndexOf(1))}), {PlainBody(ChildUrlset)})
                    ELSE {([rate_limit_calls |-> 0, gets |-> <<>>, result |-> Exception("Exception", <<>>, "first")])} :
           \E children \in [SearchChildren(source_name, req) ->
                              Calls(scraper_type, {PlainBody(ChildUrlset)},
                                    {PlainBody(ChildUrlset)})] :
             observed' =
               [op |-> "search_url_in_sitemap", publication |-> source_name,
                search_url |-> search_url, req |-> req, children |-> children,
                result |-> search_url_in_sitemap(source_name, search_url, req, children)]
  /\ UNCHANGED <<scraper_type, web, sources_to_use, pub_i, pc, sitemap_tried,
                 sitemap_succeeded, sitemap_candidates, feed_i, rss_candidates,
                 all_candidates, candidates, idx, discovered, publication_articles,
                 final_3, all_articles, request_count, get_count, feed_gets,
                 last_request, last_fetch, contributions,
                 clock, last_request_time, previous_request_time, random_delay,
                 threads>>

NextCall ==
  \/ Request
  \/ ResolveSitemap
  \/ ParseFeed
  \/ ExtractContent
  \/ ExtractAuthor
  \/ SearchSitemap

SpecCalls == InitRequest /\ [][NextCall]_vars

(***************************************************************************)
(* Rate limiting.  Time is counted in ticks of half a second from the      *)
(* construction of the collector; a sleep lasts the time asked for or      *)
(* longer.  The run of collect_top_3_per_publication counts the calls of   *)
(* apply_rate_limit in request_count; their timing is followed here.       *)
(***************************************************************************)
TicksPerSecond == 2

min_delay_between_requests == 2 * TicksPerSecond

max_delay_between_requests == 5 * TicksPerSecond

max_requests_per_minute == 20

MaxClock == 84

\* apply_rate_limit without the sleep that waits for min_delay_between_requests
apply_rate_limit_no_wait(current_time, last_time, delay, overslept) ==
  current_time + delay + overslept

\* the time apply_rate_limit records in last_request_time: it is called at
\* current_time, sleeps until min_delay_between_requests have passed since
\* last_time, then sleeps delay
apply_rate_limit(current_time, last_time, delay, overslept) ==
  LET time_since_last == current_time - last_time
      sleep_time == IF time_since_last < min_delay_between_requests
                    THEN min_delay_between_requests - time_since_last
                    ELSE 0
  IN  current_time + sleep_time + delay + overslept

\* a call of apply_rate_limit, elapsed ticks after the last step
ApplyRateLimit ==
  /\ web = "none"
  /\ clock < MaxClock
  /\ \E elapsed \in {0, 1, 3, 4, 9} :
       \E delay \in (0..(max_delay_between_requests - min_delay_between_requests)) :
         \E overslept \in {0, 1} :
           \E pause \in ({5 * TicksPerSecond, 10 * TicksPerSecond}) :
             LET recorded == apply_rate_limit(clock + elapsed, last_request_time,
                                              delay, overslept)
             IN  /\ random_delay' = delay
                 /\ previous_request_time' = last_request_time
                 /\ last_request_time' = recorded
                 /\ request_count' = request_count + 1
                 /\ clock' = IF request_count' % max_requests_per_minute = 0
                             THEN recorded + pause ELSE recorded
  /\ UNCHANGED <<scraper_type, web, sources_to_use, pub_i, pc, sitemap_tried,
                 sitemap_succeeded, sitemap_candidates, feed_i, rss_candidates,
                 all_candidates, candidates, idx, discovered, publication_articles,
                 final_3, all_articles, get_count, feed_gets, last_request,
                 last_fetch, contributions, observed,
                 threads>>

\* the loop of collect_top_3_per_publication going on to the next source
\* with request_count set back to 0
BeginSourceCountReset ==
  /\ web = "none"
  /\ pub_i < Len(sources_to_use)
  /\ pub_i' = pub_i + 1
  /\ request_count' = 0
  /\ UNCHANGED <<scraper_type, web, sources_to_use, pc, sitemap_tried,
                 sitemap_succeeded, sitemap_candidates, feed_i, rss_candidates,
                 all_candidates, candidates, idx, discovered, publication_articles,
                 final_3, all_articles, get_count, feed_gets,
                 last_request, last_fetch, contributions, observed,
                 clock, last_request_time, previous_request_time, random_delay,
                 threads>>

\* the loop of collect_top_3_per_publication going on to the next source:
\* it sets requests_per_source, which nothing else writes or reads, to 0
\* and leaves request_count and last_request_time as they are
BeginSource ==
  /\ web = "none"
  /\ pub_i < Len(sources_to_use)
  /\ pub_i' = pub_i + 1
  /\ UNCHANGED <<scraper_type, web, sources_to_use, pc, sitemap_tried,
                 sitemap_succeeded, sitemap_candidates, feed_i, rss_candidates,
                 all_candidates, candidates, idx, discovered, publication_articles,
                 final_3, all_articles, request_count, get_count, feed_gets,
                 last_request, last_fetch, contributions, observed,
                 clock, last_request_time, previous_request_time, random_delay,
                 threads>>

\* the collector at its construction, called for two sources
InitRate ==
  /\ InitRun({[web |-> "none", sources_subset |-> <<"The Guardian", "The Times">>]})
  /\ scraper_type = "curl-cffi"

NextRate == ApplyRateLimit \/ BeginSource

SpecRate == InitRate /\ [][NextRate]_vars

(***************************************************************************)
(* apply_rate_limit called by several threads on one collector.  The       *)
(* method takes no lock: a thread reads last_request_time, sleeps, writes  *)
(* last_request_time, and adds 1 to request_count by a read and a write    *)
(* between which another thread may run.  A sleep ends at its time or      *)
(* later.  The threads make one call each, so the pause after 20 calls     *)
(* does not occur.                                                         *)
(***************************************************************************)
MaxThreadClock == 8

\* time passes
Tick ==
  /\ web = "none"
  /\ clock < MaxThreadClock
  /\ clock' = clock + 1
  /\ UNCHANGED <<scraper_type, web, sources_to_use, pub_i, pc, sitemap_tried,
                 sitemap_succeeded, sitemap_candidates, feed_i, rss_candidates,
                 all_candidates, candidates, idx, discovered, publication_articles,
                 final_3, all_articles, get_count, feed_gets,
                 last_request, last_fetch, contributions, observed,
                 previous_request_time, random_delay,
                 request_count, last_request_time, threads>>

\* thread t enters apply_rate_limit: it reads the clock and
\* last_request_time and starts to sleep
ThreadCall(t) ==
  /\ web = "none"
  /\ threads[t].pc = "idle"
  /\ \E delay \in ({0, max_delay_between_requests - min_delay_between_requests}) :
       threads' = [threads EXCEPT ![t].pc = "sleeping",
                     ![t].wake = apply_rate_limit(clock, last_request_time, delay, 0)]
  /\ UNCHANGED <<scraper_type, web, sources_to_use, pub_i, pc, sitemap_tried,
                 sitemap_succeeded, sitemap_candidates, feed_i, rss_candidates,
                 all_candidates, candidates, idx, discovered, publication_articles,
                 final_3, all_articles, get_count, feed_gets,
                 last_request, last_fetch, contributions, observed,
                 previous_request_time, random_delay,
                 clock, request_count, last_request_time>>

\* the sleeps of thread t are over: self.last_request_time = time.time()
ThreadWake(t) ==
  /\ web = "none"
  /\ threads[t].pc = "sleeping"
  /\ clock >= threads[t].wake
  /\ last_request_time' = clock
  /\ threads' = [threads EXCEPT ![t].pc = "recorded"]
  /\ UNCHANGED <<scraper_type, web, sources_to_use, pub_i, pc, sitemap_tried,
                 sitemap_succeeded, sitemap_candidates, feed_i, rss_candidates,
                 all_candidates, candidates, idx, discovered, publication_articles,
                 final_3, all_articles, get_count, feed_gets,
                 last_request, last_fetch, contributions, observed,
                 previous_request_time, random_delay,
                 clock, request_count>>

\* self.request_count += 1, the read
ThreadLoad(t) ==
  /\ web = "none"
  /\ threads[t].pc = "recorded"
  /\ threads' = [threads EXCEPT ![t].pc = "loaded", ![t].loaded = request_count]
  /\ UNCHANGED <<scraper_type, web, sources_to_use, pub_i, pc, sitemap_tried,
                 sitemap_succeeded, sitemap_candidates, feed_i, rss_candidates,
                 all_candidates, candidates, idx, discovered, publication_articles,
                 final_3, all_articles, get_count, feed_gets,
                 last_request, last_fetch, contributions, observed,
                 previous_request_time, random_delay,
                 clock, request_count, last_request_time>>

\* self.request_count += 1, the write; the call returns
ThreadStore(t) ==
  /\ web = "none"
  /\ threads[t].pc = "loaded"
  /\ request_count' = threads[t].loaded + 1
  /\ threads' = [threads EXCEPT ![t].pc = "returned", ![t].returned_at = clock]
  /\ UNCHANGED <<scraper_type, web, sources_to_use, pub_i, pc, sitemap_tried,
                 sitemap_succeeded, sitemap_candidates, feed_i, rss_candidates,
                 all_candidates, candidates, idx, discovered, publication_articles,
                 final_3, all_articles, get_count, feed_gets,
                 last_request, last_fetch, contributions, observed,
                 previous_request_time, random_delay,
                 clock, last_request_time>>

NextThreads ==
  \/ Tick
  \/ \E t \in Threads : ThreadCall(t)
  \/ \E t \in Threads : ThreadWake(t)
  \/ \E t \in Threads : ThreadLoad(t)
  \/ \E t \in Threads : ThreadStore(t)

SpecThreads == InitRate /\ [][NextThreads]_vars

(***************************************************************************)
(* The scorers alone: calculate_title_relevance_score on titles and urls,  *)
(* calculate_relevance_score on titles and contents.  A content is made of *)
(* some of the phrases of ProbePhrases, in their order.                    *)
(***************************************************************************)
ProbePhrases ==
  << <<"a"," ","d","i","a","m","o","n","d">>, <<"n","e","c","k","l","a","c","e">>, <<"D","i","a","m","o","n","d"," ","a","g","a","i","n">>, <<"C","a","r","t","i","e","r">>, <<"J","E","W","E","L","L","E","R","Y">>,
     <<"s","t","y","l","e">>, <<"L","u","x","u","r","y"," ","s","e","c","t","o","r">> >>

RECURSIVE PhrasesFrom(_, _)
\* the phrases of chosen from phrase i on, each followed by ", "
PhrasesFrom(i, chosen) ==
  IF i > Len(ProbePhrases) THEN <<>>
  ELSE (IF i \in chosen THEN ProbePhrases[i] \o <<","," ">> ELSE <<>>)
       \o PhrasesFrom(i + 1, chosen)

ProbeContents == {PhrasesFrom(1, chosen) : chosen \in SUBSET (1..Len(ProbePhrases))}

ProbeContentTitles == {<<>>, TitleRubySale}

\* calculate_relevance_score on the titles and contents above
probe_scores ==
  [title \in ProbeContentTitles, content \in ProbeContents |->
     calculate_relevance_score(title, content)]

\* calculate_title_relevance_score(title, url) alone
ScoreTitle ==
  /\ web = "none"
  /\ last_request = NoRequest
  /\ observed = NoCall
  /\ \E title \in ({<<>>, TitleTax, <<"C","a","r","t","i","e","r"," ","j","e","w","e","l","l","e","r","y"," ","b","o","x">>, <<"C","A","R","T","I","E","R">>, <<"L","u","x","u","r","y"," ","S","e","c","t","o","r"," ","r","e","p","o","r","t">>,
                    <<"T","h","e"," ","R","o","y","a","l","s">>, <<"j","e","w","e","l">>}) :
       \E url \in ({<<>>, UrlGold, UrlTax, <<"T",".","U","K","/","D","i","a","m","o","n","d","-","R","i","n","g">>}) :
         LET scored == calculate_title_relevance_score(title, url)
         IN  observed' =
               [op |-> "calculate_title_relevance_score", title |-> title,
                url |-> url, score |-> scored.score, keywords |-> scored.keywords]
  /\ UNCHANGED <<scraper_type, web, sources_to_use, pub_i, pc, sitemap_tried,
                 sitemap_succeeded, sitemap_candidates, feed_i, rss_candidates,
                 all_candidates, candidates, idx, discovered, publication_articles,
                 final_3, all_articles, request_count, get_count, feed_gets,
                 last_request, last_fetch, contributions,
                 clock, last_request_time, previous_request_time, random_delay,
                 threads>>

\* calculate_relevance_score(title, content) alone
ScoreContent ==
  /\ web = "none"
  /\ last_request = NoRequest
  /\ observed = NoCall
  /\ \E title \in ProbeContentTitles :
       \E content \in ProbeContents :
         LET scored == probe_scores[title, content]
         IN  observed' =
               [op |-> "calculate_relevance_score", title |-> title,
                content |-> content, score |-> scored.score,
                keywords |-> scored.keywords]
  /\ UNCHANGED <<scraper_type, web, sources_to_use, pub_i, pc, sitemap_tried,
                 sitemap_succeeded, sitemap_candidates, feed_i, rss_candidates,
                 all_candidates, candidates, idx, discovered, publication_articles,
                 final_3, all_articles, request_count, get_count, feed_gets,
                 last_request, last_fetch, contributions,
                 clock, last_request_time, previous_request_time, random_delay,
                 threads>>

\* is_relevant_url(url) alone
FilterUrl ==
  /\ web = "none"
  /\ last_request = NoRequest
  /\ observed = NoCall
  /\ \E url \in ({<<>>, UrlGold, UrlTax, UrlDenied, <<"T",".","U","K","/","D","i","a","m","o","n","d","-","R","i","n","g">>,
                  <<"h","t","t","p","s",":","/","/","n","a","t","i","o","n","a","l","j","e","w","e","l","e","r",".","c","o","m","/">>, <<"h","t","t","p","s",":","/","/","n","a","t","i","o","n","a","l","j","e","w","e","l","e","r",".","c","o","m">>,
                  <<"h","t","t","p","s",":","/","/","n","a","t","i","o","n","a","l","j","e","w","e","l","e","r",".","c","o","m","/","s","t","y","l","e">>, <<"h","t","t","p","s",":","/","/","n","a","t","i","o","n","a","l","j","e","w","e","l","e","r",".","c","o","m","/","s","t","y","l","e","/","/">>,
                  <<"h","t","t","p","s",":","/","/","n","a","t","i","o","n","a","l","j","e","w","e","l","e","r",".","c","o","m","/","s","t","y","l","e","/","r","i","n","g","s">>, <<"H","T","T","P","S",":","/","/","N","A","T","I","O","N","A","L","J","E","W","E","L","E","R",".","C","O","M","/","S","T","Y","L","E">>,
                  <<"h","t","t","p","s",":","/","/","n","a","t","i","o","n","a","l","j","e","w","e","l","e","r",".","c","o","m","/","d","i","a","m","o","n","d","s","-","g","e","m","s","/">>, <<"h","t","t","p","s",":","/","/","n","a","t","i","o","n","a","l","j","e","w","e","l","e","r",".","c","o","m","/","o","p","i","n","i","o","n","s","/">>}) :
       observed' = [op |-> "is_relevant_url", url |-> url, value |-> is_relevant_url(url)]
  /\ UNCHANGED <<scraper_type, web, sources_to_use, pub_i, pc, sitemap_tried,
                 sitemap_succeeded, sitemap_candidates, feed_i, rss_candidates,
                 all_candidates, candidates, idx, discovered, publication_articles,
                 final_3, all_articles, request_count, get_count, feed_gets,
                 last_request, last_fetch, contributions,
                 clock, last_request_time, previous_request_time, random_delay,
                 threads>>

NextScore == ScoreTitle \/ ScoreContent \/ FilterUrl

SpecScore == InitRequest /\ [][NextScore]_vars

(***************************************************************************)
(* Properties                                                              *)
(***************************************************************************)
Range(seq) == {seq[i] : i \in 1..Len(seq)}

UrlsOf(seq) == {seq[i].url : i \in 1..Len(seq)}

\* the position of the first candidate of seq with this url
FirstIndex(seq, url) ==
  CHOOSE i \in 1..Len(seq) :
    seq[i].url = url /\ \A j \in 1..(i - 1) : seq[j].url # url

Least(a, b) == IF a < b THEN a ELSE b

\* collect_from_source has returned for the source at pub_i
CandidatesReturned == pc \in {"Deduplicated", "ContentScored", "Selected"}

\* C1: the list collect_from_source returns has one candidate for every
\* url of the merged list (sitemap candidates, then feed candidates) and no
\* other, that candidate is the first one of the merged list with the url,
\* and the retained candidates are in the order of the merged list.
DedupKeepsFirstSeen ==
  CandidatesReturned =>
    /\ all_candidates = sitemap_candidates \o rss_candidates
    /\ UrlsOf(candidates) = UrlsOf(all_candidates)
    /\ \A i, j \in 1..Len(candidates) :
         i # j => candidates[i].url # candidates[j].url
    /\ \A i \in 1..Len(candidates) :
         candidates[i] = all_candidates[FirstIndex(all_candidates, candidates[i].url)]
    /\ \A i, j \in 1..Len(candidates) :
         i < j => FirstIndex(all_candidates, candidates[i].url)
                    < FirstIndex(all_candidates, candidates[j].url)

\* a merged list of sitemap and feed candidates in which a url comes twice,
\* with candidates that differ, has been deduplicated
DedupDropsLaterInstance ==
  /\ pc = "Deduplicated"
  /\ sitemap_candidates # <<>>
  /\ rss_candidates # <<>>
  /\ Len(candidates) >= 3
  /\ \E i, j \in 1..Len(all_candidates) :
       /\ i < j
       /\ all_candidates[i].url = all_candidates[j].url
       /\ all_candidates[i] # all_candidates[j]
       /\ \E k \in 1..Len(candidates) : k > 1 /\ candidates[k] = all_candidates[i]

\* C2: the list collect_top_3_per_publication returns has no two
\* candidates with the same url.
ReturnedUrlsDistinct ==
  pc = "done" =>
    \A i, j \in 1..Len(all_articles) :
      i # j => all_articles[i].url # all_articles[j].url

\* C3: the selection of a publication is the Least(M, 3) highest-scoring of
\* the M candidates that survived content extraction, in descending order
\* of score; no survivor outside it has a higher score than one inside it.
TopThreeByScore ==
  pc = "Selected" =>
    /\ Len(final_3) = Least(Len(discovered), TopK)
    /\ Range(final_3) \subseteq Range(discovered)
    /\ Cardinality(Range(final_3)) = Len(final_3)
    /\ \A i, j \in 1..Len(final_3) :
         i < j => final_3[i].relevance_score >= final_3[j].relevance_score
    /\ \A inside \in Range(final_3) :
         \A outside \in Range(discovered) \ Range(final_3) :
           outside.relevance_score <= inside.relevance_score
    /\ \E n \in 0..Len(all_articles) :
         all_articles = SubSeq(all_articles, 1, n) \o final_3

\* more than three candidates survived, not in descending order of score,
\* and a selection was made of them
SelectedFromUnsorted ==
  /\ pc = "Selected"
  /\ Len(discovered) > TopK
  /\ \E i, j \in 1..Len(discovered) :
       i < j /\ discovered[i].relevance_score < discovered[j].relevance_score
  /\ \E a \in Range(discovered) \ Range(final_3) :
       a.relevance_score < final_3[Len(final_3)].relevance_score

\* the position of the survivor with this url in a list
IndexOfUrl(seq, url) == CHOOSE i \in 1..Len(seq) : seq[i].url = url

\* C4: survivors of one publication with equal scores stay in the order of
\* their discovery when the list is sorted, and of two such survivors the
\* later one is selected only if the earlier one is.
TiesKeepDiscoveryOrder ==
  pc = "Selected" =>
    \A p, q \in 1..Len(discovered) :
      (p < q /\ discovered[p].relevance_score = discovered[q].relevance_score) =>
        /\ IndexOfUrl(publication_articles, discovered[p].url)
             < IndexOfUrl(publication_articles, discovered[q].url)
        /\ (discovered[q] \in Range(final_3)) => (discovered[p] \in Range(final_3))

\* two survivors of the same score, one selected and the other not, with a
\* survivor of a higher score discovered after them
TieAtTheCut ==
  /\ pc = "Selected"
  /\ \E p, q, r \in 1..Len(discovered) :
       /\ p < q /\ q < r
       /\ discovered[p].relevance_score = discovered[q].relevance_score
       /\ discovered[r].relevance_score > discovered[q].relevance_score
       /\ discovered[p] \in Range(final_3)
       /\ discovered[q] \notin Range(final_3)

\* feeds were attempted for the source at pub_i
FeedsAttempted == feed_i > 1

\* C5: feeds are attempted exactly when the source has feeds and has no
\* sitemap, or its sitemap attempt gave no candidates, or gave fewer than
\* 10; the sitemap candidates are kept and come before the feed candidates
\* in the merged list; after 10 or more sitemap candidates no feed is
\* requested.
FeedsWhenSitemapFallsShort ==
  CandidatesReturned =>
    /\ FeedsAttempted <=>
         /\ source_info.rss_feeds # <<>>
         /\ \/ source_info.sitemap_url = <<>>
            \/ sitemap_candidates = <<>>
            \/ Len(sitemap_candidates) < MinSitemapCandidates
    /\ FeedsAttempted => feed_i = Len(source_info.rss_feeds) + 1
    /\ all_candidates = sitemap_candidates \o rss_candidates
    /\ Len(sitemap_candidates) >= MinSitemapCandidates =>
         feed_gets = 0 /\ rss_candidates = <<>>
    /\ ~FeedsAttempted => feed_gets = 0 /\ rss_candidates = <<>>

\* a sitemap gave 9 candidates and the feeds added theirs behind them
FeedsSupplementNine ==
  /\ CandidatesReturned
  /\ Len(sitemap_candidates) = MinSitemapCandidates - 1
  /\ rss_candidates # <<>>
  /\ feed_gets > 0
  /\ Len(all_candidates) > Len(sitemap_candidates)

\* the order of the stages of one source, and the ends of its iteration
StageOrder ==
  {<<"NotStarted", "SitemapAttempted">>, <<"SitemapAttempted", "RssAttempted">>,
   <<"RssAttempted", "RssAttempted">>, <<"SitemapAttempted", "Deduplicated">>,
   <<"RssAttempted", "Deduplicated">>, <<"Deduplicated", "Deduplicated">>,
   <<"Deduplicated", "ContentScored">>, <<"ContentScored", "Selected">>,
   <<"Selected", "NotStarted">>, <<"Deduplicated", "NotStarted">>,
   <<"NotStarted", "NotStarted">>, <<"NotStarted", "done">>}

\* C6: the stages of a source come in the order NotStarted,
\* SitemapAttempted, RssAttempted (optional), Deduplicated, ContentScored,
\* Selected; a feed is requested only after the sitemap attempt of a source
\* that has a sitemap, an article is downloaded only after the
\* deduplication, and the selection is made only after the last download.
StagesInOrder ==
  [][/\ <<pc, pc'>> \in StageOrder
     /\ feed_gets' > feed_gets =>
          /\ pc \in {"SitemapAttempted", "RssAttempted"}
          /\ source_info.sitemap_url # <<>> => sitemap_tried
     /\ idx' > idx =>
          /\ pc = "Deduplicated"
          /\ candidates = RemoveDuplicates(all_candidates, {})
          /\ candidates' = candidates
     /\ (pc' = "Selected" \/ all_articles' # all_articles) =>
          /\ pc = "ContentScored"
          /\ idx = Least(Len(candidates), MaxDownloads)
          /\ idx' = idx
    ]_vars

\* a source went through every stage: sitemap, feeds, deduplication,
\* several downloads, selection
WentThroughEveryStage ==
  /\ pc = "Selected"
  /\ sitemap_tried
  /\ feed_gets > 0
  /\ idx >= 2
  /\ final_3 # <<>>

RECURSIVE Articles(_)
\* the articles of a list of contributions, in order
Articles(given) ==
  IF given = <<>> THEN <<>>
  ELSE given[1].articles \o Articles(Tail(given))

\* C7: a source whose sitemap and feeds all fail contributes no article,
\* the run goes on with the next source and returns the contributions of
\* all the sources; no failure of a source ends the run.
SourceFailureContained ==
  /\ pc # "aborted"
  /\ pc # "done" => ENABLED Next
  /\ \A k \in 1..Len(contributions) :
       contributions[k].found = 0 => contributions[k].articles = <<>>
  /\ pc = "done" =>
       /\ [k \in 1..Len(contributions) |-> contributions[k].publication]
            = SelectSeq(sources_to_use, LAMBDA p : p \in DOMAIN target_sources)
       /\ all_articles = Articles(contributions)

\* the run returned the articles of a source that came after a source
\* whose sitemap and feeds all failed
ReturnedAfterFailedSource ==
  /\ pc = "done"
  /\ \E k, l \in 1..Len(contributions) :
       /\ k < l
       /\ contributions[k].found = 0
       /\ contributions[l].articles # <<>>
       /\ \A i \in 1..Len(contributions[l].articles) :
            \E j \in 1..Len(all_articles) :
              all_articles[j] = contributions[l].articles[i]

\* the download failed: the request raised, the status was not 200 or the
\* text was shorter than 150 characters
FetchFailed(fetch) ==
  \/ fetch.kind = "exception"
  \/ fetch.kind = "response" /\ fetch.status_code # 200
  \/ fetch.kind = "response" /\ fetch.status_code = 200 /\ fetch.text_len < 150

\* C8: a candidate whose fetch raises, answers with a status other than
\* 200 or gives a text shorter than 150 characters is not added to the
\* scored list of the publication, and the loop goes on with the next
\* candidate; the pipeline of the publication is not aborted.
ContentFailureContained ==
  /\ pc # "aborted"
  /\ (last_fetch.kind # "none" /\ FetchFailed(last_fetch)) =>
       /\ last_fetch.url \notin UrlsOf(discovered)
       /\ last_fetch.url \notin UrlsOf(publication_articles)
       /\ CandidatesReturned
       /\ idx < Least(Len(candidates), MaxDownloads) =>
            pc = "Deduplicated" /\ ENABLED Download

\* a fetch raised and a later candidate of the same publication was scored
ScoredAfterFailedFetch ==
  /\ pc = "Selected"
  /\ final_3 # <<>>
  /\ \E i \in 1..Len(candidates) :
       /\ candidates[i].url \notin UrlsOf(discovered)
       /\ \E j \in (i + 1)..Len(candidates) : candidates[j].url \in UrlsOf(final_3)

\* C9: no more than 100 articles are downloaded for a source, and the
\* downloads are those of the first 100 candidates in discovery order.
DownloadsCapped ==
  /\ idx <= MaxDownloads
  /\ idx <= Len(candidates)
  /\ last_fetch.kind # "none" => idx >= 1 /\ last_fetch.url = candidates[idx].url
  /\ pc \in {"ContentScored", "Selected"} =>
       idx = Least(Len(candidates), MaxDownloads)

\* a source had more than 100 candidates and its download loop ended
CapReached ==
  /\ pc = "ContentScored"
  /\ Len(candidates) > MaxDownloads
  /\ idx = MaxDownloads
  /\ last_fetch.url = candidates[MaxDownloads].url

\* C10: after an SSL error of the GET under curl-cffi one more GET is
\* issued, without certificate verification, and its response is returned;
\* under another backend, or if the second GET raises too, or after an
\* error that is not an SSL error, no further GET is issued and the
\* exception of the first GET reaches the caller.
RetryOnlyAfterSslError ==
  (last_request # NoRequest /\ last_request.first.kind = "exception") =>
    IF last_request.first.ssl_error /\ last_request.scraper_type = "curl-cffi"
    THEN /\ last_request.gets = <<TRUE, FALSE>>
         /\ last_request.result =
              IF last_request.retry.kind = "response"
              THEN last_request.retry ELSE last_request.first
    ELSE /\ last_request.gets = <<TRUE>>
         /\ last_request.result = last_request.first

\* a response with a status other than 200
Refused(result) == result.kind = "response" /\ result.status_code # 200

\* the call is one of a call site of make_request: sitemap (with its child
\* sitemaps), feed or content download
AtCallSite ==
  observed.op \in {"fetch_sitemap_articles", "try_rss_feed", "extract_full_content"}

\* the call site whose request was refused gave nothing
SkippedStep ==
  /\ ~observed.raised
  /\ observed.requests = 1
  /\ observed.op = "fetch_sitemap_articles" =>
       observed.urls = <<>> /\ observed.candidates = <<>>
  /\ observed.op = "try_rss_feed" => observed.candidates = <<>>
  /\ observed.op = "extract_full_content" => observed.value = <<>>

\* C11 as stated: a call that ends with a response of a status other than
\* 200 has issued exactly one HTTP request and returns that response, and
\* the call site skips the step without another request.
OneRequestWhenRefused ==
  /\ (last_request # NoRequest /\ Refused(last_request.result)) =>
       /\ last_request.gets = <<TRUE>>
       /\ last_request.result = last_request.first
  /\ (AtCallSite /\ Refused(observed.req.result)) =>
       /\ Len(observed.req.gets) = 1
       /\ SkippedStep

\* the request of a call ended with its GET number n
EndedWithGet(req, n) ==
  /\ Len(req.gets) = n
  /\ req.result.id = IF n = 1 THEN "first" ELSE "retry"

\* C11, amended: no HTTP request follows a response of a status other than
\* 200 and the response is returned: the call has issued one request when
\* the first GET was answered, two when the GET without verification was;
\* every call site (sitemap, child sitemap, feed, content) skips the step
\* without another request.
NoRequestAfterRefusal ==
  /\ last_request # NoRequest =>
       /\ last_request.first.kind = "response" =>
            /\ last_request.gets = <<TRUE>>
            /\ last_request.result = last_request.first
       /\ Refused(last_request.result) =>
            \/ /\ last_request.gets = <<TRUE>>
               /\ last_request.result = last_request.first
            \/ /\ last_request.gets = <<TRUE, FALSE>>
               /\ last_request.first.kind = "exception"
               /\ last_request.result = last_request.retry
  /\ (AtCallSite /\ Refused(observed.req.result)) =>
       /\ EndedWithGet(observed.req, 1) \/ EndedWithGet(observed.req, 2)
       /\ Len(observed.req.gets) = 2 => observed.req.gets[2] = FALSE
       /\ SkippedStep
  /\ (observed # NoCall /\ observed.op = "fetch_sitemap_articles") =>
       /\ \A i \in DOMAIN observed.children :
            Refused(observed.children[i].result) =>
              \/ EndedWithGet(observed.children[i], 1)
              \/ EndedWithGet(observed.children[i], 2)
       /\ (/\ DOMAIN observed.children # {}
           /\ \A i \in DOMAIN observed.children :
                Refused(observed.children[i].result)) => observed.urls = <<>>

\* the GET without verification of a content download was answered 403
\* and the candidate was skipped
RefusedOnSecondGet ==
  /\ observed # NoCall
  /\ observed.op = "extract_full_content"
  /\ Refused(observed.req.result)
  /\ observed.req.result.status_code = 403
  /\ observed.req.gets = <<TRUE, FALSE>>
  /\ observed.value = <<>>

\* C12: the last_request_time a call of apply_rate_limit records is at
\* least min_delay_between_requests later than the one recorded before it,
\* and the random delay of the call lies between 0 and
\* max_delay_between_requests - min_delay_between_requests.
MinimumSpacing ==
  previous_request_time >= 0 =>
    /\ last_request_time - previous_request_time >= 2 * TicksPerSecond
    /\ random_delay >= 0
    /\ random_delay <= 5 * TicksPerSecond - 2 * TicksPerSecond
    /\ last_request_time <= clock

\* a call that came at once after the one before it, had a random delay of
\* 0 and was the twentieth, after which the collector paused
CalledAtOnce ==
  /\ request_count = max_requests_per_minute
  /\ previous_request_time > 0
  /\ last_request_time - previous_request_time = min_delay_between_requests
  /\ random_delay = 0
  /\ clock > last_request_time

\* the call observed is a call of fetch_sitemap_articles that got a 200
SitemapAnswered ==
  /\ observed # NoCall
  /\ observed.op = "fetch_sitemap_articles"
  /\ observed.req.result.kind = "response"
  /\ observed.req.result.status_code = 200

\* the urls the entries of a document list if it is a sitemap index
IndexLocs(root) ==
  IF root.ok /\ root.tag = "sitemapindex"
  THEN {root.elems[i].loc[1] : i \in {j \in 1..Len(root.elems) : root.elems[j].loc # <<>>}}
  ELSE {}

\* the children of the call observed that were answered with a 200
AnsweredChildren ==
  {i \in DOMAIN observed.children :
     /\ observed.children[i].result.kind = "response"
     /\ observed.children[i].result.status_code = 200}

\* the urls of sitemap documents that the documents of the call observed list
ChildSitemapUrls ==
  IndexLocs(DecodedRoot(observed.req.result.content))
    \cup UNION {IndexLocs(observed.children[i].result.content.utf8) :
                  i \in AnsweredChildren}

\* C13: resolving a sitemap index whose children are sitemap indexes
\* themselves returns the page urls of the urlsets only; the url of a
\* child sitemap document is never returned as a page url or a candidate.
NoSitemapUrlAsPage ==
  SitemapAnswered =>
    /\ UrlsOf(observed.urls) \cap ChildSitemapUrls = {}
    /\ UrlsOf(observed.candidates) \cap ChildSitemapUrls = {}

\* the urls of the entries of a document that have a loc, in order
Locs(root) ==
  LET with_loc == SelectSeq(root.elems, LAMBDA e : e.loc # <<>>)
  IN  [k \in 1..Len(with_loc) |-> with_loc[k].loc[1]]

\* the call observed resolved a sitemap index whose children are urlsets
IndexOfUrlsets ==
  /\ SitemapAnswered
  /\ DecodedRoot(observed.req.result.content).ok
  /\ DecodedRoot(observed.req.result.content).tag = "sitemapindex"
  /\ DOMAIN observed.children # {}
  /\ AnsweredChildren = DOMAIN observed.children
  /\ \A i \in DOMAIN observed.children :
       /\ observed.children[i].result.content.utf8.ok
       /\ observed.children[i].result.content.utf8.tag = "urlset"

RECURSIVE ChildLocs(_, _)
\* the urls of the children from entry i of the index on, in document order
ChildLocs(i, n) ==
  IF i > n THEN <<>>
  ELSE (IF i \in DOMAIN observed.children
        THEN Locs(observed.children[i].result.content.utf8) ELSE <<>>)
       \o ChildLocs(i + 1, n)

\* C14: resolving a sitemap index of n child urlsets gives the pairs of the
\* children, all of them, in document order, before the URL filter, and
\* takes 1 + n requests.
IndexFlattenedInOrder ==
  IndexOfUrlsets =>
    /\ [k \in 1..Len(observed.urls) |-> observed.urls[k].url]
         = ChildLocs(1, Len(DecodedRoot(observed.req.result.content).elems))
    /\ observed.requests = 1 + Cardinality(DOMAIN observed.children)
    /\ Cardinality(DOMAIN observed.children)
         = Len(Locs([DecodedRoot(observed.req.result.content) EXCEPT !.tag = "urlset"]))
    /\ ~observed.raised

\* an index of two children of 5 urls each gave 10 pairs after 3 requests
TwoChildrenFlattened ==
  /\ IndexOfUrlsets
  /\ \E i, j \in DOMAIN observed.children :
       /\ i < j
       /\ Len(Locs(observed.children[i].result.content.utf8)) = 5
       /\ Len(Locs(observed.children[j].result.content.utf8)) = 5
  /\ Cardinality(DOMAIN observed.children) = 2
  /\ Len(observed.urls) = 10
  /\ observed.requests = 3

\* the tree of the first of the strategies, in the order text, UTF-8,
\* ISO-8859-1, gzip, that parses the body
FirstParsed(body) ==
  LET strategies == <<body.text, body.utf8, body.latin1, body.gzip>>
      parsed == {i \in 1..4 : strategies[i].ok}
  IN  IF parsed = {} THEN [ok |-> FALSE]
      ELSE strategies[CHOOSE i \in parsed : \A j \in parsed : i <= j]

\* C15: fetch_sitemap_articles uses the tree of the first decoding strategy
\* that parses the body, in the order text, UTF-8, ISO-8859-1, gzip; a body
\* that parses under none gives an empty list and no exception.
FirstDecodingWins ==
  SitemapAnswered =>
    LET root == FirstParsed(observed.req.result.content)
    IN  /\ ~observed.raised
        /\ ~root.ok =>
             /\ observed.urls = <<>>
             /\ observed.candidates = <<>>
             /\ observed.requests = 1
        /\ (root.ok /\ root.tag = "urlset") =>
             /\ [k \in 1..Len(observed.urls) |-> observed.urls[k].url] = Locs(root)
             /\ observed.requests = 1
        /\ (root.ok /\ root.tag = "sitemapindex") =>
             DOMAIN observed.children
               = {i \in 1..Len(root.elems) : root.elems[i].loc # <<>>}

\* a body that does not parse as text and parses to different trees as
\* UTF-8 and as ISO-8859-1 gave the urls of the UTF-8 tree
Utf8TreeUsed ==
  /\ SitemapAnswered
  /\ ~observed.req.result.content.text.ok
  /\ observed.req.result.content.utf8.ok
  /\ observed.req.result.content.latin1.ok
  /\ observed.req.result.content.utf8 # observed.req.result.content.latin1
  /\ observed.urls # <<>>
  /\ UrlsOf(observed.urls) = UrlsOf(observed.candidates)

\* the entries of a document that have a loc
Entries(root) == SelectSeq(root.elems, LAMBDA e : e.loc # <<>>)

RECURSIVE ChildEntries(_, _)
\* the entries with a loc of the children from entry i of the index on
ChildEntries(i, n) ==
  IF i > n THEN <<>>
  ELSE (IF i \in DOMAIN observed.children
        THEN Entries(observed.children[i].result.content.utf8) ELSE <<>>)
       \o ChildEntries(i + 1, n)

\* the call observed read a urlset
UrlsetRead ==
  /\ SitemapAnswered
  /\ FirstParsed(observed.req.result.content).ok
  /\ FirstParsed(observed.req.result.content).tag = "urlset"

\* the url entries the call observed has read
EntriesRead ==
  IF UrlsetRead THEN Entries(FirstParsed(observed.req.result.content))
  ELSE ChildEntries(1, Len(FirstParsed(observed.req.result.content).elems))

\* texts of lastmod that are no date
NoDates == {<<>>, <<"y","e","s","t","e","r","d","a","y">>, <<"T","h","u","r","s","d","a","y">>}

\* C16: every url entry that has a loc gives one (url, lastmod) pair,
\* whatever its lastmod: old, missing or unparseable; a missing or
\* unparseable lastmod is replaced by the current time.
EveryLocGivesPair ==
  (UrlsetRead \/ IndexOfUrlsets) =>
    /\ Len(observed.urls) = Len(EntriesRead)
    /\ \A k \in 1..Len(EntriesRead) :
         LET entry == EntriesRead[k]
             pair == observed.urls[k]
         IN  /\ pair.url = entry.loc[1]
             /\ (entry.lastmod = <<>> \/ entry.lastmod[1] \in NoDates) =>
                  pair.lastmod_date = Now
             /\ (entry.lastmod # <<>> /\ entry.lastmod[1] \notin NoDates) =>
                  /\ pair.lastmod_date # Now
                  /\ Prefix(pair.lastmod_date, 10) = Prefix(entry.lastmod[1], 10)

\* a urlset with an old, an unparseable, an empty and a missing lastmod
\* gave a pair for each of its entries that have a loc
PairsOfEveryLastmod ==
  /\ UrlsetRead
  /\ \E a, b, c, d \in 1..Len(EntriesRead) :
       /\ EntriesRead[a].lastmod = << <<"1","9","9","9","-","1","2","-","3","1">> >>
       /\ observed.urls[a].lastmod_date = <<"1","9","9","9","-","1","2","-","3","1">>
       /\ EntriesRead[b].lastmod = << <<"T","h","u","r","s","d","a","y">> >>
       /\ EntriesRead[c].lastmod = << <<>> >>
       /\ EntriesRead[d].lastmod = <<>>
       /\ observed.urls[d].lastmod_date = Now
  /\ Len(observed.urls) = 4

\* try_rss_feed was called alone and its request was answered 200
FeedAnswered ==
  /\ observed.op = "try_rss_feed"
  /\ observed.req.result.kind = "response"
  /\ observed.req.result.status_code = 200

\* the entry has a title and a link and its title and link hold a keyword
Matching(entry) ==
  /\ strip(entry.title) # <<>>
  /\ strip(entry.link) # <<>>
  /\ title_scores[strip(entry.title), strip(entry.link)].score >= 1 * Scale

\* the entries of the feed observed that have a title, a link and a keyword
MatchingEntries == SelectSeq(observed.req.result.content.entries, Matching)

\* C17: the candidates try_rss_feed returns are, in the order of the feed,
\* the entries that have a non-empty title and URL and at least one keyword
\* in title+URL; each candidate has a non-empty title and URL and carries
\* its title-stage score, at least 1.0, as relevance_score.
FeedKeepsMatchingEntries ==
  observed.op = "try_rss_feed" =>
    /\ \A k \in 1..Len(observed.candidates) :
         LET c == observed.candidates[k]
         IN  /\ c.title # <<>>
             /\ c.url # <<>>
             /\ c.relevance_score = title_scores[c.title, c.url].score
             /\ c.relevance_score >= 1 * Scale
    /\ FeedAnswered =>
         /\ Len(observed.candidates) = Len(MatchingEntries)
         /\ \A k \in 1..Len(MatchingEntries) :
              /\ observed.candidates[k].title = strip(MatchingEntries[k].title)
              /\ observed.candidates[k].url = strip(MatchingEntries[k].link)

\* a feed with an entry without link, entries of one and of two keywords and
\* an entry without keyword gave the two candidates it has
FeedOfFourGaveTwo ==
  /\ FeedAnswered
  /\ Len(observed.req.result.content.entries) = 4
  /\ \E e \in Range(observed.req.result.content.entries) :
       strip(e.title) # <<>> /\ strip(e.link) = <<>>
  /\ \E e \in Range(observed.req.result.content.entries) :
       /\ strip(e.title) # <<>> /\ strip(e.link) # <<>> /\ ~Matching(e)
  /\ Len(observed.candidates) = 2
  /\ observed.candidates[1].relevance_score = 2 * Scale
  /\ observed.candidates[2].relevance_score = 1 * Scale

\* the positions in luxury_keywords of the keywords that occur in text,
\* letters compared without regard to case
Occurring(text) ==
  {i \in 1..Len(luxury_keywords) :
     \E p \in 0..(Len(text) - Len(luxury_keywords[i])) :
       \A j \in 1..Len(luxury_keywords[i]) :
         LowerChar(text[p + j]) = LowerChar(luxury_keywords[i][j])}

\* C18: calculate_title_relevance_score returns the number of configured
\* keywords that occur, case-insensitively, in "title url", as the score,
\* together with exactly those keywords; a title containing 'Cartier' and
\* 'jewellery' scores at least 2.0.
TitleScoreCountsKeywords ==
  observed.op = "calculate_title_relevance_score" =>
    LET occurring == Occurring(observed.title \o <<" ">> \o observed.url)
    IN  /\ observed.score = Cardinality(occurring) * Scale
        /\ Len(observed.keywords) = Cardinality(occurring)
        /\ Range(observed.keywords) = {luxury_keywords[i] : i \in occurring}
        /\ (Contains(observed.title, <<"C","a","r","t","i","e","r">>) /\ Contains(observed.title, <<"j","e","w","e","l","l","e","r","y">>)) =>
             observed.score >= 2 * Scale

\* a title with 'Cartier' and 'jewellery' and a url with a keyword in
\* capitals were scored: three keywords, 3.0
CartierJewelleryScored ==
  /\ observed.op = "calculate_title_relevance_score"
  /\ Contains(observed.title, <<"C","a","r","t","i","e","r">>)
  /\ Contains(observed.title, <<"j","e","w","e","l","l","e","r","y">>)
  /\ observed.url = <<"T",".","U","K","/","D","i","a","m","o","n","d","-","R","i","n","g">>
  /\ observed.score = 3 * Scale
  /\ Range(observed.keywords) = {<<"c","a","r","t","i","e","r">>, <<"j","e","w","e","l","l","e","r","y">>, <<"d","i","a","m","o","n","d">>}

\* the keywords that occur in "title content", for the titles and contents
\* of the calls of calculate_relevance_score
matched_keywords ==
  [title \in ProbeContentTitles, content \in ProbeContents |->
     Occurring(title \o <<" ">> \o content)]

\* C19: for every title and contents A and B, if the keywords matched in
\* title+A are among those matched in title+B then the Stage-2 score of
\* (title, B) is at least that of (title, A): a further matching keyword
\* never lowers the score.
Stage2ScoreMonotone ==
  observed.op = "calculate_relevance_score" =>
    \A B \in ProbeContents :
      matched_keywords[observed.title, observed.content]
          \subseteq matched_keywords[observed.title, B] =>
        probe_scores[observed.title, B].score >= observed.score

\* a content of four keywords was scored, and a content that matches these
\* and a fifth, of the least weight, scores more
FifthKeywordRaisesScore ==
  /\ observed.op = "calculate_relevance_score"
  /\ Len(observed.keywords) = 4
  /\ \E B \in ProbeContents :
       /\ Range(probe_scores[observed.title, B].keywords)
            = Range(observed.keywords) \cup {<<"s","t","y","l","e">>}
       /\ <<"s","t","y","l","e">> \notin Range(observed.keywords)
       /\ probe_scores[observed.title, B].score > observed.score

RECURSIVE WeightSum(_)
\* the sum of the weights of the keywords
WeightSum(keywords) ==
  IF keywords = <<>> THEN 0
  ELSE KeywordWeight(keywords[1]) + WeightSum(Tail(keywords))

\* C20: the Stage-2 score is the sum of the weights of the matched keywords
\* times 1 for at most 2 keywords, 1.2 for 3 or 4, 1.2 x 1.4 for 5 or more;
\* a text that matches only 'diamond' and 'necklace' scores exactly 10.0.
BonusByKeywordCount ==
  observed.op = "calculate_relevance_score" =>
    LET n == Len(observed.keywords)
        sum == WeightSum(observed.keywords)
    IN  /\ n <= 2 => observed.score = sum
        /\ n \in {3, 4} => observed.score * 5 = sum * 6
        /\ n >= 5 => observed.score * 25 = sum * 42
        /\ Range(observed.keywords) = {<<"d","i","a","m","o","n","d">>, <<"n","e","c","k","l","a","c","e">>} =>
             observed.score = 10 * Scale

\* a content with 'diamond' twice and 'necklace' once scored 10.0
DiamondTwiceNecklaceOnce ==
  /\ observed.op = "calculate_relevance_score"
  /\ observed.title = <<>>
  /\ observed.content = <<"a"," ","d","i","a","m","o","n","d",","," ","n","e","c","k","l","a","c","e",","," ","D","i","a","m","o","n","d"," ","a","g","a","i","n",","," ">>
  /\ Range(observed.keywords) = {<<"d","i","a","m","o","n","d">>, <<"n","e","c","k","l","a","c","e">>}
  /\ observed.score = 10 * Scale

\* C21: every article in the output of collect_top_3_per_publication
\* passes domain validation: its title+text holds a core-vocabulary term
\* (is_luxury_relevant_content is true), whatever its score.
SelectedPassDomainValidation ==
  \A i \in 1..Len(all_articles) :
    core_relevance[all_articles[i].title, all_articles[i].full_content]

\* C29: every article selected by collect_top_3_per_publication has a
\* full-content relevance score above 3.0, the score threshold of
\* check_article_relevance.
SelectedAboveThreshold ==
  \A i \in 1..Len(all_articles) :
    passes_score_threshold(all_articles[i].relevance_score)

\* the url without its trailing slashes
WithoutTrailingSlashes(url) ==
  LET keep == {k \in 0..Len(url) : k = 0 \/ url[k] # "/"}
  IN  SubSeq(url, 1, CHOOSE k \in keep : \A m \in keep : m <= k)

\* the url is a page of the denylist, as given or without trailing slashes
Denylisted(url) ==
  \E i \in 1..Len(national_jeweler_excluded) :
    \/ national_jeweler_excluded[i] = url
    \/ national_jeweler_excluded[i] = WithoutTrailingSlashes(url)

\* C22: is_relevant_url rejects a url that equals a denylisted page exactly
\* or after removing trailing slashes, even when it holds a keyword; every
\* other url is accepted exactly when it holds at least one configured
\* keyword as a case-insensitive substring.
DenylistBeforeKeywords ==
  observed.op = "is_relevant_url" =>
    /\ Denylisted(observed.url) => ~observed.value
    /\ ~Denylisted(observed.url) => (observed.value <=> Occurring(observed.url) # {})

\* a denylisted page given with a trailing slash, which holds the keyword
\* 'style', was rejected
DeniedDespiteKeyword ==
  /\ observed.op = "is_relevant_url"
  /\ observed.url = UrlDenied
  /\ observed.url[Len(observed.url)] = "/"
  /\ Occurring(observed.url) # {}
  /\ ~observed.value

RECURSIVE JsonLdNames(_)
\* the names the well-formed blocks give, in the order of the page
JsonLdNames(blocks) ==
  IF blocks = <<>> THEN <<>>
  ELSE (IF blocks[1].malformed THEN <<>>
        ELSE SelectSeq(blocks[1].authors, LAMBDA name : name # <<>>))
       \o JsonLdNames(Tail(blocks))

\* C23: extract_author returns the first name of the JSON-LD author
\* metadata, whatever the other stages have; otherwise the first author of
\* the extractor; otherwise the 'By <Name>' match; otherwise 'Unknown'.  A
\* malformed block is skipped: the blocks after it and the later stages
\* still supply the author.
AuthorStagesInOrder ==
  observed.op = "extract_author" =>
    LET article == observed.article
        names == JsonLdNames(article.jsonld)
    IN  /\ names # <<>> => observed.value = names[1]
        /\ (names = <<>> /\ article.authors # <<>>) =>
             observed.value = article.authors[1]
        /\ (names = <<>> /\ article.authors = <<>> /\ article.byline # <<>>) =>
             observed.value = article.byline
        /\ (names = <<>> /\ article.authors = <<>> /\ article.byline = <<>>) =>
             observed.value = <<"U","n","k","n","o","w","n">>

\* the author came from the JSON-LD block after a malformed block, on a
\* page that has extractor authors and a 'By <Name>' match as well
AuthorAfterMalformedBlock ==
  /\ observed.op = "extract_author"
  /\ Len(observed.article.jsonld) = 2
  /\ observed.article.jsonld[1].malformed
  /\ observed.article.authors # <<>>
  /\ observed.article.byline # <<>>
  /\ observed.value = <<"J","a","n","e"," ","R","o","e">>

\* C24: every GET the collector issues (sitemap, child sitemap, feed,
\* premium feed, article, SSL retry) is preceded by its own apply_rate_limit
\* call: the calls of apply_rate_limit are never fewer than the GETs.
EveryGetRateLimited == request_count >= get_count

\* C25: a call of apply_rate_limit adds exactly 1 to request_count and is
\* followed by the cooldown pause exactly when the count it leaves is a
\* positive multiple of 20; going on to the next source leaves the count as
\* it is, so the cadence spans the sources.
CooldownEveryTwentieth ==
  [][ /\ request_count' # request_count =>
           /\ request_count' = request_count + 1
           /\ (request_count' > 0 /\ request_count' % 20 = 0) =>
                clock' - last_request_time' >= 5 * TicksPerSecond
           /\ ~(request_count' > 0 /\ request_count' % 20 = 0) =>
                clock' = last_request_time'
      /\ pub_i' # pub_i => request_count' = request_count ]_vars

\* the twentieth call, made for the second source after calls made for the
\* first, was followed by the pause
PausedInSecondSource ==
  /\ request_count = 20
  /\ pub_i = 2
  /\ clock - last_request_time >= 5 * TicksPerSecond

\* the threads whose call of apply_rate_limit has returned
Returned == {t \in Threads : threads[t].pc = "returned"}

\* no two callers are released within less than min_delay_between_requests
ReleasesSpaced ==
  \A a, b \in Returned :
    a # b =>
      \/ threads[a].returned_at - threads[b].returned_at >= min_delay_between_requests
      \/ threads[b].returned_at - threads[a].returned_at >= min_delay_between_requests

\* every call that has returned is counted
NoIncrementLost == request_count >= Cardinality(Returned)

\* C26: concurrent calls of apply_rate_limit on one collector are
\* serialized: no two callers are released within less than
\* min_delay_between_requests of each other and no increment of
\* request_count is lost.
ConcurrentCallsSerialized == ReleasesSpaced /\ NoIncrementLost

\* the search observed got a 200 whose body does not parse as the text of
\* the response and parses as UTF-8 or after gzip decompression
SearchNeedsLaterDecoding ==
  /\ observed.op = "search_url_in_sitemap"
  /\ observed.req.result.kind = "response"
  /\ observed.req.result.status_code = 200
  /\ ~observed.req.result.content.text.ok
  /\ observed.req.result.content.utf8.ok \/ observed.req.result.content.gzip.ok

\* C27: when the body fails to parse as transport-decoded text and parses
\* as raw UTF-8 or after gzip decompression, search_url_in_sitemap searches
\* the urls of that tree and returns a found / not-found result with
\* total_urls_in_sitemap, not an error result.
SearchUsesLaterDecoding ==
  SearchNeedsLaterDecoding =>
    LET body == observed.req.result.content
        tree == IF body.utf8.ok THEN body.utf8 ELSE body.gzip
    IN  /\ ~observed.result.error
        /\ observed.result.total_urls_in_sitemap
             = Cardinality({i \in 1..Len(tree.elems) : tree.elems[i].loc # <<>>})

\* the weight of the category list the keyword is written in
ListedWeight(keyword) ==
  LET listed(list) == In(keyword, list) \/ In(lower(keyword), list)
  IN  IF listed(core_priority_keywords) THEN 4 * Scale
      ELSE IF listed(primary_jewelry_terms) THEN 5 * Scale
      ELSE IF listed(jewelry_pieces_and_materials) THEN 5 * Scale
      ELSE IF listed(premium_luxury_brands) THEN (7 * Scale) \div 2
      ELSE IF listed(fashion_and_luxury_terms) THEN (5 * Scale) \div 2
      ELSE IF listed(events_and_celebrity) THEN 2 * Scale
      ELSE IF listed(industry_terms) THEN Scale \div 2
      ELSE Scale

RECURSIVE ListedSum(_)
\* the sum of the weights of the lists the keywords are written in
ListedSum(keywords) ==
  IF keywords = <<>> THEN 0
  ELSE ListedWeight(keywords[1]) + ListedSum(Tail(keywords))

\* C28: in calculate_relevance_score every matched keyword contributes the
\* weight of the category list it is written in; 'Lab grown diamonds',
\* 'Diamond price', 'Gold price', 'Luxury sector' and 'Luxury marketing
\* trends', written under the primary jewelry terms, contribute 5.0 each.
KeywordsWeighAsListed ==
  observed.op = "calculate_relevance_score" =>
    LET n == Len(observed.keywords)
        sum == ListedSum(observed.keywords)
    IN  /\ n <= 2 => observed.score = sum
        /\ n \in {3, 4} => observed.score * 5 = sum * 6
        /\ n >= 5 => observed.score * 25 = sum * 42

\* C30: a run with nothing to collect from (no source of the run is in
\* the source table) ends in a fatal error and does not return normally.
NothingToCollectIsFatal ==
  (\A i \in 1..Len(sources_to_use) : sources_to_use[i] \notin DOMAIN target_sources)
    => pc # "done"

====
